---- MODULE Spec2Model ----
(***************************************************************************)
(* NatsRun: a router of dot-delimited subjects to handler chains.          *)
(*                                                                         *)
(* The model follows the sources                                           *)
(*   - the token pool         src/unnamed/part_012   (the StringPool that  *)
(*     src/src/lib/natstrie/index.ts imports as './string-pool.js' and     *)
(*     constructs with ['*', '>']),                                        *)
(*   - the matching trie      src/src/lib/natstrie/index.ts,               *)
(*   - the router             src/src/index.ts and its later revision      *)
(*     src/unnamed/part_010 (lines 217-452), which reads the trie node's   *)
(*     `p` field.                                                          *)
(*                                                                         *)
(* A string is a sequence of one-character strings, so that split(".")     *)
(* is computed and not assumed.  A trie is a function from the path of a   *)
(* node (the token ids from the root) to the node; a branch lists its      *)
(* children in the order they were set.  A handle call is a stack of       *)
(* activations of handlers and of next, one step per await.                *)
(*                                                                         *)
(* Specifications                                                          *)
(*   Spec           add and match, default strategy, a fresh router and a  *)
(*                  router whose root branch is about to become a map      *)
(*   SpecInsertion  add and match under 'insertion'                        *)
(*   SpecCustom     add with priorities and match under 'custom'           *)
(*   SpecShapes     add of every accepted and rejected shape, and match    *)
(*   SpecChain      add and one handle call over every kind of handler     *)
(*   SpecIsolation  add and two interleaved handle calls                   *)
(*   SpecChainFair  SpecChain under the scheduling of the event loop       *)
(*   SpecValidation one add of valid or invalid arguments after others,    *)
(*                  and match                                              *)
(*   SpecSubjects   add, and match and handle of any string as a subject   *)
(*   SpecSearch     add and search, on a fresh and on a wide router         *)
(*   SpecThreshold  insert into a trie made with and without a threshold    *)
(*   SpecPool       intern, getString and clear on a pool used by itself    *)
(*   SpecPermanent  add, match, search and handle, fresh and wide router    *)
(*   SpecDetached   handle calls whose handlers do not await next           *)
(*   SpecBloom      add and remove on a Bloomrun                            *)
(***************************************************************************)
EXTENDS Integers, Sequences, FiniteSets, TLC

VARIABLES
  sortStrategy,   \* NatsRun.sortStrategy
  customSort,     \* NatsRun.customSort (name of the comparator, "" when absent)
  count,          \* NatsRun.count
  trie,           \* NatsTrie.trieRoot and all nodes below it, keyed by path
  pool,           \* NatsTrie.stringPool
  lastError,      \* error raised by the most recent router call, "" when it returned
  lastMatch,      \* outcome of the most recent NatsRun.match call
  registered,     \* history: the handler groups of every add call that returned
  calls,          \* the handle calls in flight, one record per call
  lastAdd,        \* history: the arguments of the add call lastError is about,
                  \* in the specifications of argument validation
  lastSearch,     \* outcome of the most recent NatsTrie.search call
  arrayToMapThreshold,  \* NatsTrie.arrayToMapThreshold
  tokenPool,      \* a StringPool of lib/string-pool used by itself
  poolLog,        \* history: the calls made on tokenPool and what they returned
  detached,       \* a handle call whose handlers call next without awaiting it
  bloom,          \* a Bloomrun: its buckets, its tree and the data of each bucket
  bloomLog        \* history: the add and remove calls made on bloom

vars == <<sortStrategy, customSort, count, trie, pool, lastError, lastMatch,
          registered, calls, lastAdd, lastSearch, arrayToMapThreshold, tokenPool, poolLog, detached, bloom, bloomLog>>

----------------------------------------------------------------------------
(* Bounds *)

MaxTokens == 2      \* longest pattern / subject, in tokens
MaxCount == 3       \* largest value of the insertion counter
MaxBloomCalls == 4  \* longest sequence of add and remove calls on a Bloomrun
MaxPoolCalls == 4   \* longest sequence of calls on a pool used by itself
SmallThreshold == 2 \* a configured threshold that three inserts can pass

----------------------------------------------------------------------------
(* Strings *)

STAR == <<"*">>
GT == <<">">>

RECURSIVE SplitFrom(_, _, _, _)
SplitFrom(s, i, cur, acc) ==
  IF i > Len(s) THEN Append(acc, cur)
  ELSE IF s[i] = "." THEN SplitFrom(s, i + 1, <<>>, Append(acc, cur))
  ELSE SplitFrom(s, i + 1, Append(cur, s[i]), acc)

\* String.prototype.split(".")
split(s) == SplitFrom(s, 1, <<>>, <<>>)

RECURSIVE join(_)
\* Array.prototype.join("."), used to build the input strings
join(ts) ==
  IF Len(ts) = 0 THEN <<>>
  ELSE IF Len(ts) = 1 THEN ts[1]
  ELSE ts[1] \o <<".">> \o join(Tail(ts))

\* Array.prototype.indexOf, 1-based, 0 when absent
indexOf(seq, x) ==
  IF \E i \in 1..Len(seq) : seq[i] = x
  THEN CHOOSE i \in 1..Len(seq) : seq[i] = x /\ \A j \in 1..(i - 1) : seq[j] # x
  ELSE 0

----------------------------------------------------------------------------
(* Token pool *)

\* StringPool.intern: the id of str, and the pool after the call
intern(pl, str) ==
  IF str \in DOMAIN pl.ids
  THEN [pool |-> pl, id |-> pl.ids[str]]
  ELSE [pool |-> [ids |-> (str :> pl.nextId) @@ pl.ids, nextId |-> pl.nextId + 1],
        id |-> pl.nextId]

RECURSIVE internAll(_, _)
internAll(pl, strs) ==
  IF Len(strs) = 0 THEN pl ELSE internAll(intern(pl, strs[1]).pool, Tail(strs))

\* new StringPool(initialStrings)
StringPool(initialStrings) == internAll([ids |-> <<>>, nextId |-> 1], initialStrings)

\* The StringPool of lib/string-pool: its Map `pool` (ids), its array
\* `strings` (the indices that hold a string, and its length) and nextId
TokenPool == [ids |-> <<>>, strings |-> <<>>, length |-> 0, nextId |-> 2]

Max(a, b) == IF a >= b THEN a ELSE b

\* intern that issues a fresh id on every call
TokenPool_internAlwaysFresh(tp, str) ==
  IF str = <<>> THEN [error |-> "Error", id |-> 0 - 1, pool |-> tp]
  ELSE IF str = GT THEN [error |-> "", id |-> 0, pool |-> tp]
  ELSE IF str = STAR THEN [error |-> "", id |-> 1, pool |-> tp]
  ELSE [error |-> "", id |-> tp.nextId,
        pool |-> [ids |-> (str :> tp.nextId) @@ tp.ids,
                  strings |-> (tp.nextId :> str) @@ tp.strings,
                  length |-> Max(tp.length, tp.nextId + 1),
                  nextId |-> tp.nextId + 1]]

\* StringPool.intern(str) of lib/string-pool: the error thrown ("" when
\* none), the id returned and the pool after the call
TokenPool_intern(tp, str) ==
  IF str = <<>> THEN [error |-> "Error", id |-> 0 - 1, pool |-> tp]
  ELSE IF str = GT THEN [error |-> "", id |-> 0, pool |-> tp]
  ELSE IF str = STAR THEN [error |-> "", id |-> 1, pool |-> tp]
  ELSE IF str \in DOMAIN tp.ids THEN [error |-> "", id |-> tp.ids[str], pool |-> tp]
  ELSE [error |-> "", id |-> tp.nextId,
        pool |-> [ids |-> (str :> tp.nextId) @@ tp.ids,
                  strings |-> (tp.nextId :> str) @@ tp.strings,
                  length |-> Max(tp.length, tp.nextId + 1),
                  nextId |-> tp.nextId + 1]]

\* StringPool.getString(id) of lib/string-pool: the error thrown and the
\* string returned; an index of `strings` that holds nothing gives undefined
TokenPool_getString(tp, id) ==
  IF id = 0 THEN [error |-> "", defined |-> TRUE, str |-> GT]
  ELSE IF id = 1 THEN [error |-> "", defined |-> TRUE, str |-> STAR]
  ELSE IF id < 0 \/ id >= tp.length THEN [error |-> "Error", defined |-> FALSE, str |-> <<>>]
  ELSE IF id \in DOMAIN tp.strings THEN [error |-> "", defined |-> TRUE, str |-> tp.strings[id]]
  ELSE [error |-> "", defined |-> FALSE, str |-> <<>>]

\* StringPool.clear() of lib/string-pool
TokenPool_clear(tp) == [ids |-> <<>>, strings |-> <<>>, length |-> 0, nextId |-> 0]

----------------------------------------------------------------------------
(* Matching trie *)

DEFAULT_ARRAY_TO_MAP_THRESHOLD == 32

NoTopic == 0    \* the `undefined` of ITrieNode.t

\* createTrie({ isLeaf, topic, stringPool }); topicId is the interned topic
createTrie(isLeaf, topicId) ==
  [t |-> topicId, l |-> isLeaf, p |-> <<>>, bt |-> "Array", kids |-> <<>>]

\* BranchOps.has / BranchOps.get: the child of the node at path under key
BranchHas(tr, path, key) == \E i \in 1..Len(tr[path].kids) : tr[path].kids[i] = key

\* BranchOps.size
BranchSize(node) == Len(node.kids)

\* convertToMap that builds the map without the entries of the array
convertToMapEmpty(tr, path) ==
  IF tr[path].bt = "Map" THEN tr ELSE [tr EXCEPT ![path].bt = "Map", ![path].kids = <<>>]

\* convertToMap(node)
convertToMap(tr, path) ==
  IF tr[path].bt = "Map" THEN tr ELSE [tr EXCEPT ![path].bt = "Map"]

\* BranchOps.set for a key the branch does not hold yet
BranchSet(tr, path, key, child) ==
  (Append(path, key) :> child) @@ [tr EXCEPT ![path].kids = Append(@, key)]

RECURSIVE insertWalk(_, _, _, _, _)
\* the for loop of insert(): walk or create one node per topic
insertWalk(tr, pl, path, topics, i) ==
  IF i > Len(topics) THEN [trie |-> tr, pool |-> pl, node |-> path]
  ELSE LET r == intern(pl, topics[i])
           isLast == (i = Len(topics))
       IN  IF BranchHas(tr, path, r.id)
           THEN insertWalk(tr, r.pool, Append(path, r.id), topics, i + 1)
           ELSE LET tr1 == IF BranchSize(tr[path]) >= DEFAULT_ARRAY_TO_MAP_THRESHOLD
                           THEN convertToMap(tr, path) ELSE tr
                    tr2 == BranchSet(tr1, path, r.id, createTrie(isLast, r.id))
                IN  insertWalk(tr2, r.pool, Append(path, r.id), topics, i + 1)

\* insert that replaces the payload of the terminal node
insertReplacing(tr, pl, topics, payload) ==
  LET w == insertWalk(tr, pl, <<>>, topics, 1)
  IN  [trie |-> [w.trie EXCEPT ![w.node].l = TRUE, ![w.node].p = payload],
       pool |-> w.pool]

\* insert(trie, subjectTopics, payload, stringPool)
insert(tr, pl, topics, payload) ==
  LET w == insertWalk(tr, pl, <<>>, topics, 1)
  IN  [trie |-> [w.trie EXCEPT ![w.node].l = TRUE, ![w.node].p = @ \o payload],
       pool |-> w.pool]

\* NatsTrie.insert that lets ">" stand at any position
TrieInsertGtAnywhere(tr, pl, subject, payload) ==
  LET topics == split(subject)
      failed(e) == [error |-> e, trie |-> tr, pool |-> pl]
  IN  IF Len(subject) = 0 THEN failed("InvalidSubjectError")
      ELSE IF \E i \in 1..Len(topics) : topics[i] = <<>> THEN failed("InvalidSubjectError")
      ELSE LET r == insert(tr, pl, topics, payload)
           IN  [error |-> "", trie |-> r.trie, pool |-> r.pool]

\* NatsTrie.insert(subject, payload): the error raised ("" when none) and the
\* trie and pool after the call; the payload is the list of handler groups
\* add built, which is defined and holds no empty entry
TrieInsert(tr, pl, subject, payload) ==
  LET topics == split(subject)
      failed(e) == [error |-> e, trie |-> tr, pool |-> pl]
  IN  IF Len(subject) = 0 THEN failed("InvalidSubjectError")
      ELSE IF Len(topics) = 0 THEN failed("InvalidSubjectError")
      ELSE IF \E i \in 1..Len(topics) : topics[i] = <<>> THEN failed("InvalidSubjectError")
      ELSE IF indexOf(topics, GT) # 0 /\ indexOf(topics, GT) # Len(topics)
           THEN failed("InvalidSubjectError")
      ELSE LET r == insert(tr, pl, topics, payload)
           IN  [error |-> "", trie |-> r.trie, pool |-> r.pool]

RECURSIVE searchNode(_, _, _, _, _)
RECURSIVE searchArray(_, _, _, _, _, _, _)
RECURSIVE searchArrayFirstWins(_, _, _, _, _, _, _)
RECURSIVE searchNodeRestEmpty(_, _, _, _, _)

\* searchArray that stops at the first child that matches
searchArrayFirstWins(tr, topics, path, index, acc, topicId, k) ==
  LET kids == tr[path].kids
      starId == intern(acc.pool, STAR).id
      gtId == intern(acc.pool, GT).id
      hits == {i \in k..Len(kids) : kids[i] # 0 /\ kids[i] \in {gtId, starId, topicId}}
  IN  IF hits = {} THEN acc
      ELSE LET j == CHOOSE i \in hits : \A h \in hits : i <= h
               child == Append(path, kids[j])
           IN  IF kids[j] = gtId THEN [acc EXCEPT !.results = Append(@, child)]
               ELSE searchNode(tr, topics, child, index + 1, acc)

\* the Array arm of _search: the children in the order the branch lists them;
\* a child that is neither ">", "*" nor the subject's token is passed over
searchArray(tr, topics, path, index, acc, topicId, k) ==
  LET kids == tr[path].kids
      starId == intern(acc.pool, STAR).id
      gtId == intern(acc.pool, GT).id
      hits == {i \in k..Len(kids) : kids[i] # 0 /\ kids[i] \in {gtId, starId, topicId}}
  IN  IF hits = {} THEN acc
      ELSE LET j == CHOOSE i \in hits : \A h \in hits : i <= h
               child == Append(path, kids[j])
               acc1 == IF kids[j] = gtId THEN [acc EXCEPT !.results = Append(@, child)]
                       ELSE searchNode(tr, topics, child, index + 1, acc)
           IN  searchArray(tr, topics, path, index, acc1, topicId, j + 1)

\* _search that, at the end of the subject, also takes the ">" child
searchNodeRestEmpty(tr, topics, path, index, acc) ==
  LET starId == intern(acc.pool, STAR).id
      gtId == intern(acc.pool, GT).id
  IN  IF index = Len(topics)
      THEN LET own == IF tr[path].l \/ tr[path].t = gtId
                      THEN [acc EXCEPT !.results = Append(@, path)] ELSE acc
           IN  IF BranchHas(tr, path, gtId)
               THEN [own EXCEPT !.results = Append(@, Append(path, gtId))]
               ELSE own
      ELSE LET r == intern(acc.pool, topics[index + 1])
               topicId == r.id
               acc0 == [acc EXCEPT !.pool = r.pool]
           IN  IF tr[path].bt = "Array"
               THEN searchArray(tr, topics, path, index, acc0, topicId, 1)
               ELSE LET a1 == IF BranchHas(tr, path, topicId)
                              THEN searchNode(tr, topics, Append(path, topicId), index + 1, acc0)
                              ELSE acc0
                        a2 == IF BranchHas(tr, path, starId)
                              THEN searchNode(tr, topics, Append(path, starId), index + 1, a1)
                              ELSE a1
                    IN  IF BranchHas(tr, path, gtId)
                        THEN [a2 EXCEPT !.results = Append(@, Append(path, gtId))]
                        ELSE a2

\* _search(node, index) of match(); acc carries the results and the pool
searchNode(tr, topics, path, index, acc) ==
  LET starId == intern(acc.pool, STAR).id
      gtId == intern(acc.pool, GT).id
  IN  IF index = Len(topics)
      THEN IF tr[path].l \/ tr[path].t = gtId
           THEN [acc EXCEPT !.results = Append(@, path)] ELSE acc
      ELSE LET r == intern(acc.pool, topics[index + 1])
               topicId == r.id
               acc0 == [acc EXCEPT !.pool = r.pool]
           IN  IF tr[path].bt = "Array"
               THEN searchArray(tr, topics, path, index, acc0, topicId, 1)
               ELSE LET a1 == IF BranchHas(tr, path, topicId)
                              THEN searchNode(tr, topics, Append(path, topicId), index + 1, acc0)
                              ELSE acc0
                        a2 == IF BranchHas(tr, path, starId)
                              THEN searchNode(tr, topics, Append(path, starId), index + 1, a1)
                              ELSE a1
                    IN  IF BranchHas(tr, path, gtId)
                        THEN [a2 EXCEPT !.results = Append(@, Append(path, gtId))]
                        ELSE a2

\* match(trie, subjectTopics, stringPool)
match(tr, topics, pl) ==
  searchNode(tr, topics, <<>>, 0,
             [results |-> <<>>, pool |-> intern(intern(pl, STAR).pool, GT).pool])

\* NatsTrie.match(subject): the paths of the matched nodes and the pool after
TrieMatch(tr, pl, subject) == match(tr, split(subject), pl)

\* search returning undefined
NotFound(pl) == [found |-> FALSE, node |-> <<>>, pool |-> pl]

RECURSIVE search(_, _, _, _, _)
RECURSIVE searchExactOnly(_, _, _, _, _)

\* search that returns what the exact child returns when there is one
searchExactOnly(tr, topics, path, depth, pl) ==
  IF depth = Len(topics)
  THEN LET g == intern(pl, GT)
       IN  IF tr[path].l \/ tr[path].t = g.id
           THEN [found |-> TRUE, node |-> path,
                 pool |-> IF tr[path].l THEN pl ELSE g.pool]
           ELSE NotFound(g.pool)
  ELSE IF tr[path].t = NoTopic /\ depth > 0 THEN NotFound(pl)
  ELSE LET r == intern(pl, topics[depth + 1])
           topicId == r.id
           starId == intern(r.pool, STAR).id
           gtId == intern(r.pool, GT).id
           p0 == intern(intern(r.pool, STAR).pool, GT).pool
       IN  IF BranchHas(tr, path, topicId)
           THEN searchExactOnly(tr, topics, Append(path, topicId), depth + 1, p0)
           ELSE LET star == IF BranchHas(tr, path, starId)
                            THEN searchExactOnly(tr, topics, Append(path, starId), depth + 1, p0)
                            ELSE NotFound(p0)
                IN  IF star.found THEN star
                    ELSE IF BranchHas(tr, path, gtId)
                         THEN [found |-> TRUE, node |-> Append(path, gtId), pool |-> star.pool]
                         ELSE NotFound(star.pool)

\* search(trie, subjectTopics, stringPool, depth): whether a node was
\* returned, its path, and the pool after the call
search(tr, topics, path, depth, pl) ==
  IF depth = Len(topics)
  THEN LET g == intern(pl, GT)
       IN  IF tr[path].l \/ tr[path].t = g.id
           THEN [found |-> TRUE, node |-> path,
                 pool |-> IF tr[path].l THEN pl ELSE g.pool]
           ELSE NotFound(g.pool)
  ELSE IF tr[path].t = NoTopic /\ depth > 0 THEN NotFound(pl)
  ELSE LET r == intern(pl, topics[depth + 1])
           topicId == r.id
           starId == intern(r.pool, STAR).id
           gtId == intern(r.pool, GT).id
           p0 == intern(intern(r.pool, STAR).pool, GT).pool
           exact == IF BranchHas(tr, path, topicId)
                    THEN search(tr, topics, Append(path, topicId), depth + 1, p0)
                    ELSE NotFound(p0)
       IN  IF exact.found THEN exact
           ELSE LET star == IF BranchHas(tr, path, starId)
                            THEN search(tr, topics, Append(path, starId), depth + 1, exact.pool)
                            ELSE NotFound(exact.pool)
                IN  IF star.found THEN star
                    ELSE IF BranchHas(tr, path, gtId)
                         THEN [found |-> TRUE, node |-> Append(path, gtId), pool |-> star.pool]
                         ELSE NotFound(star.pool)

\* NatsTrie.search(subject)
TrieSearch(tr, pl, subject) == search(tr, split(subject), <<>>, 0, pl)

----------------------------------------------------------------------------
(* Router: registration *)

\* wrapHandler(handler) and a caller-built NatsHandlersPayload, as the items
\* of the `handle` argument of add; "bad" is a value that is neither a
\* function nor an object (a string, a number, ...)
FnItem(h) == [tag |-> "fn", handlers |-> <<h>>]
PayloadItem(hs) == [tag |-> "payload", handlers |-> hs]
BadItem == [tag |-> "bad", handlers |-> <<>>]

\* the other values a caller may pass: null, undefined, an object without
\* `handlers`, an object whose `handlers` is not an array, and a list as an
\* item of a list; NotAFunction is an entry of `handlers` that is no function
NullItem == [tag |-> "null", handlers |-> <<>>]
UndefinedItem == [tag |-> "undefined", handlers |-> <<>>]
ObjectItem == [tag |-> "object", handlers |-> <<>>]
HandlersNoArrayItem == [tag |-> "handlersNoArray", handlers |-> <<>>]
ListItem(hs) == [tag |-> "list", handlers |-> hs]
NotAFunction == "notAFunction"

\* typeof value
typeof(item) ==
  IF item.tag = "fn" THEN "function"
  ELSE IF item.tag = "undefined" THEN "undefined"
  ELSE IF item.tag = "bad" THEN "string"
  ELSE "object"

\* isHandlersPayload that takes any object with an array of `handlers`
isHandlersPayloadAnyEntries(item) ==
  /\ typeof(item) = "object"
  /\ item.tag # "null"
  /\ item.tag \in {"payload", "handlersNoArray"}    \* 'handlers' in handle
  /\ item.tag # "handlersNoArray"                   \* Array.isArray(handle.handlers)

\* NatsRun.isHandlersPayload(handle)
isHandlersPayload(item) ==
  /\ typeof(item) = "object"
  /\ item.tag # "null"
  /\ item.tag \in {"payload", "handlersNoArray"}    \* 'handlers' in handle
  /\ item.tag # "handlersNoArray"                   \* Array.isArray(handle.handlers)
  /\ \A i \in DOMAIN item.handlers : item.handlers[i] # NotAFunction

\* the `handle` argument of add: one item, or an array of items
One(item) == [isArray |-> FALSE, items |-> <<item>>]
Many(items) == [isArray |-> TRUE, items |-> items]

\* addPayloadMetadata(payload, metadata, { _insertOrder, _pattern })
addPayloadMetadata(item, metadata, insertOrder, pattern) ==
  [handlers |-> item.handlers, priority |-> metadata,
   insertOrder |-> insertOrder, pattern |-> pattern]

RECURSIVE addItems(_, _, _, _, _, _)
\* the normalisation of add(): one handler group per item, count++ for each
addItems(items, i, cnt, acc, pattern, metadata) ==
  IF i > Len(items) THEN [error |-> "", count |-> cnt, handlers |-> acc]
  ELSE IF typeof(items[i]) # "function" /\ ~isHandlersPayload(items[i])
       THEN [error |-> "NatsRunHandlerError", count |-> cnt, handlers |-> acc]
  ELSE addItems(items, i + 1, cnt + 1,
                Append(acc, addPayloadMetadata(items[i], metadata, cnt, pattern)),
                pattern, metadata)

\* add that inserts the groups it built before it raises the handler error
addInsertingBeforeError(cnt, tr, pl, pattern, handle, metadata) ==
  LET n == addItems(handle.items, 1, cnt, <<>>, pattern, metadata)
      r == TrieInsert(tr, pl, pattern, n.handlers)
  IN  [error |-> IF n.error # "" THEN n.error
                 ELSE IF r.error = "InvalidSubjectError" THEN "NatsRunSubjectError"
                 ELSE r.error,
       count |-> n.count, trie |-> r.trie, pool |-> r.pool,
       handlers |-> IF n.error = "" /\ r.error = "" THEN n.handlers ELSE <<>>]

\* NatsRun.add(pattern, handle, metadata)
add(cnt, tr, pl, pattern, handle, metadata) ==
  LET n == addItems(handle.items, 1, cnt, <<>>, pattern, metadata)
  IN  IF n.error # ""
      THEN [error |-> n.error, count |-> n.count, trie |-> tr, pool |-> pl,
            handlers |-> <<>>]
      ELSE LET r == TrieInsert(tr, pl, pattern, n.handlers)
           IN  [error |-> IF r.error = "InvalidSubjectError" THEN "NatsRunSubjectError"
                          ELSE r.error,
                count |-> n.count, trie |-> r.trie, pool |-> r.pool,
                handlers |-> IF r.error = "" THEN n.handlers ELSE <<>>]

----------------------------------------------------------------------------
(* Router: matching and ordering *)

RECURSIVE SumWeightsStarHeaviest(_)
\* the weights with "*" above a literal
SumWeightsStarHeaviest(topics) ==
  IF Len(topics) = 0 THEN 0
  ELSE (IF topics[1] = GT THEN 1 ELSE IF topics[1] = STAR THEN 3 ELSE 2)
       + SumWeightsStarHeaviest(Tail(topics))

RECURSIVE SumWeights(_)
SumWeights(topics) ==
  IF Len(topics) = 0 THEN 0
  ELSE (IF topics[1] = GT THEN 1 ELSE IF topics[1] = STAR THEN 2 ELSE 3)
       + SumWeights(Tail(topics))

\* calculateSpecificity that counts the tokens
calculateSpecificityByLength(pattern) == Len(split(pattern))

\* NatsRun.calculateSpecificity(pattern)
calculateSpecificity(pattern) == SumWeights(split(pattern))

\* the comparators a caller may configure as customSort
prioritySort(a, b) == a.priority - b.priority
newestFirst(a, b) == b.insertOrder - a.insertOrder
shortestFirst(a, b) == Len(split(a.pattern)) - Len(split(b.pattern))

CustomSorts == {"prioritySort", "newestFirst", "shortestFirst"}

\* compare whose specificity arm puts the least specific pattern first
compareLeastSpecificFirst(strategy, custom, a, b) ==
  IF strategy = "insertion" THEN a.insertOrder - b.insertOrder
  ELSE IF strategy = "specificity"
       THEN calculateSpecificity(a.pattern) - calculateSpecificity(b.pattern)
  ELSE IF custom = "prioritySort" THEN prioritySort(a, b)
  ELSE IF custom = "newestFirst" THEN newestFirst(a, b)
  ELSE shortestFirst(a, b)

\* the comparator NatsRun.match hands to Array.prototype.sort
compare(strategy, custom, a, b) ==
  IF strategy = "insertion" THEN a.insertOrder - b.insertOrder
  ELSE IF strategy = "specificity"
       THEN calculateSpecificity(b.pattern) - calculateSpecificity(a.pattern)
  ELSE IF custom = "prioritySort" THEN prioritySort(a, b)
  ELSE IF custom = "newestFirst" THEN newestFirst(a, b)
  ELSE shortestFirst(a, b)

\* sortInsert that puts x before the elements that compare equal
sortInsertUnstable(sorted, x, strategy, custom) ==
  LET later == {i \in 1..Len(sorted) : compare(strategy, custom, sorted[i], x) >= 0}
      at == IF later = {} THEN Len(sorted) + 1
            ELSE CHOOSE i \in later : \A j \in later : i <= j
  IN  SubSeq(sorted, 1, at - 1) \o <<x>> \o SubSeq(sorted, at, Len(sorted))

\* one step of a stable sort: x goes before the first element that must
\* follow it and behind every element that compares equal
sortInsert(sorted, x, strategy, custom) ==
  LET later == {i \in 1..Len(sorted) : compare(strategy, custom, sorted[i], x) > 0}
      at == IF later = {} THEN Len(sorted) + 1
            ELSE CHOOSE i \in later : \A j \in later : i <= j
  IN  SubSeq(sorted, 1, at - 1) \o <<x>> \o SubSeq(sorted, at, Len(sorted))

RECURSIVE sortFrom(_, _, _, _, _)
sortFrom(seq, i, acc, strategy, custom) ==
  IF i > Len(seq) THEN acc
  ELSE sortFrom(seq, i + 1, sortInsert(acc, seq[i], strategy, custom), strategy, custom)

\* Array.prototype.sort(comparator): stable (ECMAScript 2019)
sort(seq, strategy, custom) == sortFrom(seq, 1, <<>>, strategy, custom)

RECURSIVE flatPayloads(_, _)
\* matches.flat().flatMap(({ p }) => p)
flatPayloads(tr, paths) ==
  IF Len(paths) = 0 THEN <<>> ELSE tr[paths[1]].p \o flatPayloads(tr, Tail(paths))

RECURSIVE flatHandlers(_)
\* sortedPayloads.flatMap(({ handlers }) => handlers)
flatHandlers(payloads) ==
  IF Len(payloads) = 0 THEN <<>> ELSE payloads[1].handlers \o flatHandlers(Tail(payloads))

\* the switch of NatsRun.match without its 'insertion' case
sortPayloadsNoInsertion(unsorted, strategy, custom) ==
  IF strategy \in {"custom", "specificity"}
  THEN sort(unsorted, strategy, custom)
  ELSE unsorted

\* the switch of NatsRun.match
sortPayloads(unsorted, strategy, custom) ==
  IF strategy \in {"insertion", "custom", "specificity"}
  THEN sort(unsorted, strategy, custom)
  ELSE unsorted

\* NatsRun.match(subject): the sorted handlers, with the intermediate lists
RouterMatch(strategy, custom, tr, pl, subject) ==
  LET m == TrieMatch(tr, pl, subject)
      unsortedPayloads == flatPayloads(tr, m.results)
      sortedPayloads == sortPayloads(unsortedPayloads, strategy, custom)
  IN  [pool |-> m.pool, nodes |-> m.results, unsorted |-> unsortedPayloads,
       payloads |-> sortedPayloads, handlers |-> flatHandlers(sortedPayloads)]

----------------------------------------------------------------------------
(* Router: the handler chain *)

\* A context is an object over these keys; Absent stands for a key it lacks
Keys == {"seed", "k", "_lastData"}
Absent == ""
EmptyCtx == [key \in Keys |-> Absent]
Object(key, value) == [EmptyCtx EXCEPT ![key] = value]

\* the values of `data` a handler hands to next
Data(tag, str, obj) == [tag |-> tag, str |-> str, obj |-> obj]
NoData == Data("undefined", Absent, EmptyCtx)

\* { ...a, ...b }
spread(a, b) == [key \in Keys |-> IF b[key] # Absent THEN b[key] ELSE a[key]]

\* objectifyData that loses a string, number or boolean
objectifyDataNoScalar(data, ctx) ==
  IF data.tag = "function" THEN Object("k", "f")
  ELSE IF data.tag = "object" THEN data.obj
  ELSE EmptyCtx

\* NatsRun.objectifyData(data, ctx); a function is called with ctx, and the
\* one the handlers here pass returns { k: "f" }
objectifyData(data, ctx) ==
  IF data.tag = "function" THEN Object("k", "f")
  ELSE IF data.tag = "object" THEN data.obj
  ELSE IF data.tag \in {"string", "number", "boolean"} THEN Object("_lastData", data.str)
  ELSE EmptyCtx

\* what a call, a handler or a next call completes with
NoError == [thrownBy |-> 0, wrapped |-> FALSE]
Pending == [tag |-> "none", ctx |-> EmptyCtx, err |-> NoError]
Value(ctx) == [tag |-> "value", ctx |-> ctx, err |-> NoError]
Undefined == [tag |-> "undefined", ctx |-> EmptyCtx, err |-> NoError]
SyncUndefined == [tag |-> "syncUndefined", ctx |-> EmptyCtx, err |-> NoError]
Thrown(pos) == [tag |-> "error", ctx |-> EmptyCtx, err |-> [thrownBy |-> pos, wrapped |-> FALSE]]

\* The handlers of the chain, by what their bodies do:
\*   pass      async (msg, ctx, next) => next()
\*   obj       async (msg, ctx, next) => next({ k: msg.data })
\*   scalar    async (msg, ctx, next) => next(msg.data)
\*   num       async (msg, ctx, next) => next(1)
\*   flag      async (msg, ctx, next) => next(true)
\*   fn        async (msg, ctx, next) => next(() => ({ k: "f" }))
\*   stop      async () => {}
\*   stopSync  () => {}
\*   throw     async () => { throw new Error() }
\*   twice     async (msg, ctx, next) => { await next(); await next() }
\*   catch     async (msg, ctx, next) => { try { return await next() } catch {} }
\*   late      async (msg, ctx, next) => { await next(); throw new Error() }
\*   await     async (msg, ctx, next) => { await next() }
\*   result    async (msg, ctx) => ({ ...ctx, _lastData: "stopped" })
Kinds == {"pass", "obj", "scalar", "num", "flag", "fn", "stop", "stopSync",
          "throw", "twice", "catch", "late", "await", "result"}

\* the data a handler of a kind passes when it calls next
DataOf(kind, message) ==
  IF kind = "obj" THEN Data("object", Absent, Object("k", message))
  ELSE IF kind = "scalar" THEN Data("string", message, EmptyCtx)
  ELSE IF kind = "num" THEN Data("number", "1", EmptyCtx)
  ELSE IF kind = "flag" THEN Data("boolean", "true", EmptyCtx)
  ELSE IF kind = "fn" THEN Data("function", Absent, EmptyCtx)
  ELSE NoData

\* an activation: of a handler (type "h", at position pos of the chain) or of
\* next (type "n", called by the handler at position pos); pc counts the
\* points it has passed, and snap is the `{ ...ctx` that next spread before
\* it awaited objectifyData
Frame(type, kind, pos, snap, data) ==
  [type |-> type, kind |-> kind, pos |-> pos, pc |-> 0, snap |-> snap, data |-> data]

IdleCall ==
  [state |-> "idle", subject |-> <<>>, message |-> Absent, initial |-> EmptyCtx,
   ctx |-> EmptyCtx, handlers |-> <<>>, matches |-> <<>>, stack |-> <<>>,
   ret |-> Pending, result |-> Pending, invoked |-> <<>>, thrown |-> <<>>]

Top(call) == call.stack[Len(call.stack)]
Pop(call) == SubSeq(call.stack, 1, Len(call.stack) - 1)

\* { subject, data: message }
Msg(subject, message) == [subject |-> subject, data |-> message]

\* invoke that delivers the data given to next as the message data
invokeDeliveringData(call, by, snap, data) ==
  LET pos == Len(call.handlers) - Len(call.matches) + 1
  IN  [call EXCEPT
         !.matches = Tail(@),
         !.stack = Append(@, Frame("h", Head(call.matches), pos, EmptyCtx, NoData)),
         !.invoked = Append(@, [pos |-> pos, by |-> by, ctx |-> call.ctx,
                                snap |-> snap, data |-> data,
                                msg |-> Msg(call.subject,
                                            IF data.str # Absent THEN data.str
                                            ELSE call.message)])]

\* invoke that reads the head of matches and leaves it there
invokeWithoutShift(call, by, snap, data) ==
  LET pos == Len(call.handlers) - Len(call.matches) + 1
  IN  [call EXCEPT
         !.stack = Append(@, Frame("h", Head(call.matches), pos, EmptyCtx, NoData)),
         !.invoked = Append(@, [pos |-> pos, by |-> by, ctx |-> call.ctx,
                                snap |-> snap, data |-> data,
                                msg |-> Msg(call.subject, call.message)])]

\* nhandler({ subject, data: message }, ctx, next): the handler that
\* matches.shift() took starts, and the invocation is put on record
invoke(call, by, snap, data) ==
  LET pos == Len(call.handlers) - Len(call.matches) + 1
  IN  [call EXCEPT
         !.matches = Tail(@),
         !.stack = Append(@, Frame("h", Head(call.matches), pos, EmptyCtx, NoData)),
         !.invoked = Append(@, [pos |-> pos, by |-> by, ctx |-> call.ctx,
                                snap |-> snap, data |-> data,
                                msg |-> Msg(call.subject, call.message)])]

\* handle that returns a fresh context when no handler matches
handleStartFreshContext(handlers, subject, message, ctx) ==
  LET call == [IdleCall EXCEPT !.state = "run", !.subject = subject,
                 !.message = message, !.initial = ctx, !.ctx = ctx,
                 !.handlers = handlers, !.matches = handlers]
  IN  IF Len(handlers) = 0
      THEN [call EXCEPT !.state = "resolved", !.result = Value(EmptyCtx)]
      ELSE invoke(call, 0, ctx, NoData)

\* NatsRun.handle up to the first handler
handleStart(handlers, subject, message, ctx) ==
  LET call == [IdleCall EXCEPT !.state = "run", !.subject = subject,
                 !.message = message, !.initial = ctx, !.ctx = ctx,
                 !.handlers = handlers, !.matches = handlers]
  IN  IF Len(handlers) = 0
      THEN [call EXCEPT !.state = "resolved", !.result = Value(ctx)]
      ELSE invoke(call, 0, ctx, NoData)

\* next that spreads the context the call began with
callNextFromInitial(call, data) ==
  LET top == Top(call)
  IN  [call EXCEPT
         !.stack = Append([@ EXCEPT ![Len(@)].pc = top.pc + 1],
                          Frame("n", "", top.pos, call.initial, data))]

\* a handler's body calls next(data)
callNext(call, data) ==
  LET top == Top(call)
  IN  [call EXCEPT
         !.stack = Append([@ EXCEPT ![Len(@)].pc = top.pc + 1],
                          Frame("n", "", top.pos, call.ctx, data))]

\* a handler's body completes with ret
complete(call, ret) ==
  [call EXCEPT
     !.stack = Pop(call),
     !.ret = ret,
     !.thrown = IF ret.tag = "error" /\ ret.err.thrownBy = Top(call).pos
                THEN Append(@, [pos |-> Top(call).pos, invoked |-> Len(call.invoked)])
                ELSE @]

\* the body of the handler on top runs from where it stands to its next point
runHandler(call) ==
  LET top == Top(call)
  IN  IF top.kind \notin {"stop", "stopSync", "throw", "result"}
      THEN callNext(call, DataOf(top.kind, call.message))
      ELSE IF top.kind = "result"
      THEN complete(call, Value([call.ctx EXCEPT !["_lastData"] = "stopped"]))
      ELSE IF top.kind = "stop" THEN complete(call, Undefined)
      ELSE IF top.kind = "stopSync" THEN complete(call, SyncUndefined)
      ELSE complete(call, Thrown(top.pos))

\* settle whose outermost await wraps the error
settleWrapping(call) ==
  IF Len(call.stack) = 0
  THEN IF call.ret.tag = "error"
       THEN [call EXCEPT !.state = "rejected", !.ret = Pending,
                         !.result = [call.ret EXCEPT !.err.wrapped = TRUE]]
       ELSE [call EXCEPT !.state = "resolved", !.ret = Pending,
                         !.result = IF call.ret.tag = "value" THEN call.ret
                                    ELSE Value(call.ctx)]
  ELSE complete(call, call.ret)

\* settle whose outermost `?? ctx` reads the context the call began with
settleInitialFallback(call) ==
  IF Len(call.stack) = 0
  THEN IF call.ret.tag = "error"
       THEN [call EXCEPT !.state = "rejected", !.ret = Pending, !.result = call.ret]
       ELSE [call EXCEPT !.state = "resolved", !.ret = Pending,
                         !.result = IF call.ret.tag = "value" THEN call.ret
                                    ELSE Value(call.initial)]
  ELSE complete(call, call.ret)

\* what completed reaches the activation that waits for it: handle's own
\* `await handler(...) ?? ctx`, next's `return nhandler(...) ?? ctx`, or the
\* body of the handler that called next
settle(call) ==
  LET top == Top(call)
      ret == call.ret
      waiting == [call EXCEPT !.ret = Pending]
  IN  IF Len(call.stack) = 0
      THEN IF ret.tag = "error"
           THEN [waiting EXCEPT !.state = "rejected", !.result = ret]
           ELSE [waiting EXCEPT !.state = "resolved",
                                !.result = IF ret.tag = "value" THEN ret
                                           ELSE Value(call.ctx)]
      ELSE IF top.type = "n"
      THEN complete(waiting, IF ret.tag = "syncUndefined" THEN Value(call.ctx) ELSE ret)
      ELSE IF top.kind = "catch"
      THEN complete(waiting, IF ret.tag = "error" THEN Undefined ELSE ret)
      ELSE IF top.kind = "late"
      THEN complete(waiting, IF ret.tag = "error" THEN ret ELSE Thrown(top.pos))
      ELSE IF top.kind = "await"
      THEN complete(waiting, IF ret.tag = "error" THEN ret ELSE Undefined)
      ELSE IF top.kind = "twice"
      THEN IF ret.tag = "error" THEN complete(waiting, ret)
           ELSE IF top.pc = 1
                THEN [waiting EXCEPT !.stack = [@ EXCEPT ![Len(@)].pc = 2]]
                ELSE complete(waiting, Undefined)
      ELSE complete(waiting, ret)

\* next that keeps the context in a field of the router
resumeNextShared(cs, c) ==
  LET call == cs[c]
      top == Top(call)
      merged == spread(top.snap, objectifyData(top.data, top.snap))
      mine == [call EXCEPT !.ctx = merged]
      after == IF Len(call.matches) = 0
               THEN [mine EXCEPT !.stack = Pop(call), !.ret = Value(merged)]
               ELSE invoke([mine EXCEPT !.stack = [@ EXCEPT ![Len(@)].pc = 1]],
                           top.pos, top.snap, top.data)
  IN  [d \in DOMAIN cs |->
         IF d = c THEN after
         ELSE IF cs[d].state = "run" THEN [cs[d] EXCEPT !.ctx = merged]
         ELSE cs[d]]

\* the body of next once objectifyData has resolved: the assignment to ctx,
\* matches.shift() and the call of the handler it took
resumeNext(cs, c) ==
  LET call == cs[c]
      top == Top(call)
      merged == spread(top.snap, objectifyData(top.data, top.snap))
      mine == [call EXCEPT !.ctx = merged]
  IN  [cs EXCEPT ![c] =
         IF Len(call.matches) = 0
         THEN [mine EXCEPT !.stack = Pop(call), !.ret = Value(merged)]
         ELSE invoke([mine EXCEPT !.stack = [@ EXCEPT ![Len(@)].pc = 1]],
                     top.pos, top.snap, top.data)]

\* A handle call whose handlers do not await next. Its handlers, by what
\* their bodies do:
\*   fork   (msg, ctx, next) => { next({ k: msg.data }); next(msg.data) }
\*   fire   (msg, ctx, next) => { next() }
\*   stop   async () => {}
\* Each runs to its end when it is called and returns undefined. `queue` is
\* the microtask queue in its order: the next calls suspended at their
\* await, each with the `{ ...ctx` it spread before, and the await of handle
\* itself. `merged` is history: every merge so far, spread in order.
DetachedKinds == {"fork", "fire", "stop"}

NoDetached ==
  [state |-> "idle", message |-> Absent, ctx |-> EmptyCtx, matches |-> <<>>,
   queue |-> <<>>, merged |-> EmptyCtx, invoked |-> <<>>, result |-> EmptyCtx,
   mergedAtReturn |-> EmptyCtx]

\* a suspended next call, and the suspended handle
Suspended(type, snap, data) == [type |-> type, snap |-> snap, data |-> data]

\* the next calls a handler makes before it returns
nextCalls(kind, message, ctx) ==
  IF kind = "fork"
  THEN <<Suspended("next", ctx, DataOf("obj", message)),
         Suspended("next", ctx, DataOf("scalar", message))>>
  ELSE IF kind = "fire" THEN <<Suspended("next", ctx, NoData)>>
  ELSE <<>>

\* handler({ subject, data: message }, ctx, next) for the handler that
\* matches.shift() took
invokeDetached(d) ==
  [d EXCEPT
     !.matches = Tail(@),
     !.queue = @ \o nextCalls(Head(d.matches), d.message, d.ctx),
     !.invoked = Append(@, [kind |-> Head(d.matches), ctx |-> d.ctx,
                            merged |-> d.merged])]

\* handle(subject, message, ctx) up to its await
handleDetached(handlers, message, ctx) ==
  LET d == [NoDetached EXCEPT !.state = "run", !.message = message, !.ctx = ctx,
                              !.matches = handlers]
  IN  IF Len(handlers) = 0
      THEN [d EXCEPT !.state = "resolved", !.result = ctx]
      ELSE [invokeDetached(d) EXCEPT !.queue = Append(@, Suspended("handle", ctx, NoData))]

\* the microtask at the head of the queue runs: a next call resumes after
\* its await (the assignment to ctx, matches.shift() and the call of the
\* handler), or handle does, with `?? ctx` for the undefined it awaited
resumeDetached(d) ==
  LET head == Head(d.queue)
      rest == [d EXCEPT !.queue = Tail(@)]
      data == objectifyData(head.data, head.snap)
      after == [rest EXCEPT !.ctx = spread(head.snap, data),
                            !.merged = spread(d.merged, data)]
  IN  IF head.type = "handle"
      THEN [rest EXCEPT !.state = "resolved", !.result = d.ctx,
                        !.mergedAtReturn = d.merged]
      ELSE IF Len(d.matches) = 0 THEN after
      ELSE invokeDetached(after)

----------------------------------------------------------------------------
(* Bloomrun *)

\* A pattern is the list of its [key, value] entries in the order of
\* Object.entries; the patterns here hold numbers, no RegExp and no object,
\* so that onlyRegex is false for them and regexBucket stays empty. A
\* PatternSet carries an id that stands for its identity as an object.
NoValue == 0    \* the `undefined` of a key the pattern lacks

Value_(pattern, key) ==
  IF \E i \in DOMAIN pattern : pattern[i][1] = key
  THEN pattern[CHOOSE i \in DOMAIN pattern : pattern[i][1] = key][2]
  ELSE NoValue

\* match(pattern, obj)
Bloomrun_match(pattern, obj) ==
  /\ \A i \in DOMAIN pattern : Value_(obj, pattern[i][1]) = pattern[i][2]
  /\ \A i \in DOMAIN obj :
       /\ Value_(pattern, obj[i][1]) # NoValue
       /\ Value_(pattern, obj[i][1]) = obj[i][2]

\* new PatternSet(pattern, payload, weight)
PatternSet(id, pattern, payload, weight) ==
  [id |-> id, pattern |-> pattern, payload |-> payload, weight |-> weight]

\* new Bloomrun(): no bucket, an empty tree; `data` and `weight` are the
\* fields of the buckets, by bucket
Bloomrun ==
  [buckets |-> <<>>, tree |-> <<>>, data |-> <<>>, weight |-> <<>>,
   nextBucket |-> 1, nextSet |-> 1]

Without(f, x) ==
  IF DOMAIN f \ {x} = {} THEN <<>> ELSE [y \in DOMAIN f \ {x} |-> f[y]]

Min(a, b) == IF a <= b THEN a ELSE b

\* Bucket.add(set): push and the stable sort by weight (insertionSort); the
\* weight of a bucket made for this set is the weight of the set
Bucket_add(b, bucket, set) ==
  LET data == b.data[bucket]
      sorted == SelectSeq(data, LAMBDA item : item.weight <= set.weight)
                  \o <<set>> \o SelectSeq(data, LAMBDA item : item.weight > set.weight)
  IN  [b EXCEPT !.data[bucket] = sorted,
                !.weight[bucket] = Min(@, set.weight)]

\* Bucket.remove(pattern, null): the data that stays
Bucket_remove(b, bucket, pattern) ==
  SelectSeq(b.data[bucket], LAMBDA item : ~Bloomrun_match(pattern, item.pattern))

RECURSIVE addEntries(_, _, _)
\* the for loop of Bloomrun.add over Object.entries(pattern), from entry i
addEntries(b, set, i) ==
  IF i > Len(set.pattern) THEN b
  ELSE LET entry == set.pattern[i]
           made == IF entry \in DOMAIN b.tree THEN b
                   ELSE [b EXCEPT !.buckets = Append(@, b.nextBucket),
                                  !.tree = (entry :> b.nextBucket) @@ @,
                                  !.data = (b.nextBucket :> <<>>) @@ @,
                                  !.weight = (b.nextBucket :> set.weight) @@ @,
                                  !.nextBucket = @ + 1]
       IN  addEntries(Bucket_add(made, made.tree[entry], set), set, i + 1)

\* Bloomrun.add(pattern, payload)
Bloomrun_add(b, pattern, payload) ==
  addEntries([b EXCEPT !.nextSet = @ + 1],
             PatternSet(b.nextSet, pattern, payload, Len(b.buckets) + 1), 1)

RECURSIVE addAll(_, _)
\* bucket.data.forEach((set) => this.add(set.pattern, set.payload))
addAll(b, sets) ==
  IF Len(sets) = 0 THEN b
  ELSE addAll(Bloomrun_add(b, sets[1].pattern, sets[1].payload), Tail(sets))

RECURSIVE removeEntries(_, _, _)
\* the for loop of Bloomrun.remove over Object.entries(pattern), from entry i
removeEntries(b, pattern, i) ==
  IF i > Len(pattern) THEN b
  ELSE LET entry == pattern[i]
       IN  IF entry \notin DOMAIN b.tree THEN removeEntries(b, pattern, i + 1)
           ELSE LET bucket == b.tree[entry]
                    kept == Bucket_remove(b, bucket, pattern)
                    dropped == [b EXCEPT
                                  !.buckets = SelectSeq(@, LAMBDA x : x # bucket),
                                  !.tree = Without(@, entry),
                                  !.data = Without(@, bucket),
                                  !.weight = Without(@, bucket)]
                IN  IF Len(kept) < Len(b.data[bucket])
                    THEN removeEntries(addAll(dropped, kept), pattern, i + 1)
                    ELSE removeEntries(b, pattern, i + 1)

\* Bloomrun.remove(pattern)
Bloomrun_remove(b, pattern) == removeEntries(b, pattern, 1)

RECURSIVE sortBuckets(_, _)
\* buckets.sort(insertionSort): stable, by the weight of the bucket
sortBuckets(b, buckets) ==
  IF Len(buckets) = 0 THEN <<>>
  ELSE LET sorted == sortBuckets(b, SubSeq(buckets, 1, Len(buckets) - 1))
           last == buckets[Len(buckets)]
       IN  SelectSeq(sorted, LAMBDA x : b.weight[x] <= b.weight[last])
             \o <<last>> \o SelectSeq(sorted, LAMBDA x : b.weight[x] > b.weight[last])

RECURSIVE bucketsOfEntries(_, _, _)
bucketsOfEntries(b, pattern, i) ==
  IF i > Len(pattern) THEN <<>>
  ELSE (IF pattern[i] \in DOMAIN b.tree THEN <<b.tree[pattern[i]]>> ELSE <<>>)
         \o bucketsOfEntries(b, pattern, i + 1)

\* BloomrunIterator.getBucketsForPattern(pattern)
getBucketsForPattern(b, pattern) == sortBuckets(b, bucketsOfEntries(b, pattern, 1))

RECURSIVE iterate(_, _, _, _, _, _, _)
\* the calls of BloomrunIterator.next() until it returns null: the sets it
\* returns, in order; pattern is <<>> for an iterator made without one
iterate(b, buckets, pattern, bucketIndex, dataIndex, visited, out) ==
  IF bucketIndex >= Len(buckets) THEN out
  ELSE LET data == b.data[buckets[bucketIndex + 1]]
           has == dataIndex < Len(data)
           currentData == data[dataIndex + 1]
           step == dataIndex + 1
           over == step >= Len(data)
       IN  IF has /\ (pattern = <<>> \/ Bloomrun_match(currentData.pattern, pattern))
                  /\ currentData.id \notin visited
           THEN iterate(b, buckets, pattern, bucketIndex, step,
                        visited \cup {currentData.id}, Append(out, currentData))
           ELSE iterate(b, buckets, pattern,
                        IF over THEN bucketIndex + 1 ELSE bucketIndex,
                        IF over THEN 0 ELSE step, visited, out)

Payloads(sets) == [i \in DOMAIN sets |-> sets[i].payload]

\* Bloomrun.list(): the payloads of every set, no default result being set
Bloomrun_listAll(b) == Payloads(iterate(b, b.buckets, <<>>, 0, 0, {}, <<>>))

\* Bloomrun.list(pattern)
Bloomrun_list(b, pattern) ==
  Payloads(iterate(b, getBucketsForPattern(b, pattern), pattern, 0, 0, {}, <<>>))

\* Bloomrun.lookup(pattern): <<>> stands for null
Bloomrun_lookup(b, pattern) ==
  LET found == Bloomrun_list(b, pattern)
  IN  IF Len(found) = 0 THEN <<>> ELSE <<found[1]>>

----------------------------------------------------------------------------
(* Inputs *)

RECURSIVE SeqsOfLen(_, _)
SeqsOfLen(S, n) ==
  IF n = 0 THEN {<<>>}
  ELSE {Append(s, x) : s \in SeqsOfLen(S, n - 1), x \in S}

SeqsUpTo(S, n) == UNION {SeqsOfLen(S, k) : k \in 1..n}

\* patterns of two literals and both wildcards (with ">" in any position),
\* and patterns with empty segments, the empty pattern among them
PatternTokens == {<<"a">>, <<"b">>, STAR, GT}
PatternInputs ==
  {join(ts) : ts \in SeqsUpTo(PatternTokens, MaxTokens)}
    \cup {join(ts) : ts \in SeqsUpTo({<<"a">>, <<>>}, MaxTokens)}

\* subjects of non-empty literal tokens, up to one token longer than any
\* pattern (no pattern token is compared with that last token); they begin
\* with "a", the patterns being the same with "a" and "b" exchanged
SubjectTokens == {<<"a">>, <<"b">>}
SubjectInputs ==
  {s \in {join(ts) : ts \in SeqsUpTo(SubjectTokens, MaxTokens)} : s[1] = "a"}
    \cup {join(<<<<"a">>>> \o ts \o <<<<"a">>>>) : ts \in SeqsOfLen(SubjectTokens, MaxTokens - 1)}

\* three patterns of different weight that "a.b" satisfies, and the subjects
\* matched against them
ChosenPatterns == {join(<<<<"a">>, <<"b">>>>), join(<<<<"a">>, STAR>>), GT}
ChosenSubjects == {join(<<<<"a">>, <<"b">>>>), join(<<<<"a">>, <<"a">>>>), <<"b">>}

\* the shapes add() accepts and rejects
HandleInputs ==
  { One(FnItem("pass")),
    One(PayloadItem(<<"obj", "stop">>)),
    Many(<<FnItem("pass"), FnItem("pass")>>),
    One(BadItem),
    Many(<<FnItem("pass"), BadItem>>) }

\* the patterns whose validation is examined: the patterns above, ">" in the
\* middle and at the end of three tokens, a doubled dot, and tokens that
\* hold a wildcard character among others
ValidationPatterns ==
  PatternInputs
    \cup { join(<<<<"a">>, GT, <<"b">>>>), join(<<<<"a">>, <<"b">>, GT>>),
           join(<<<<"a">>, <<>>, <<"b">>>>), <<"a", ">">>, <<">", "a">>,
           join(<<<<"a", "*">>, <<"b">>>>) }
ValidationHandles ==
  HandleInputs
    \cup { Many(<<>>), One(NullItem), One(UndefinedItem), One(ObjectItem),
           One(HandlersNoArrayItem), One(PayloadItem(<<"pass", NotAFunction>>)),
           One(PayloadItem(<<>>)),
           Many(<<FnItem("pass"), NullItem>>),
           Many(<<PayloadItem(<<"obj">>), PayloadItem(<<"obj", NotAFunction>>)>>),
           Many(<<ListItem(<<"pass">>)>>),
           Many(<<PayloadItem(<<"obj">>), PayloadItem(<<"stop">>)>>),
           Many(<<FnItem("pass"), PayloadItem(<<"obj", "stop">>)>>) }
ProbeSubjects == {<<"a">>, join(<<<<"a">>, <<"b">>>>), join(<<<<"a">>, <<"b">>, <<"b">>>>)}

\* any string as a subject: the empty string, strings with empty segments,
\* literals, and the wildcard characters; and the patterns they meet
AnySubjects ==
  { <<>>, <<".">>, <<"a", ".">>, <<".", "a">>, <<"a">>, <<"b">>,
    join(<<<<"a">>, <<"b">>>>), STAR, GT }
SubjectPatterns == {<<"a">>, STAR, GT, join(<<<<"a">>, STAR>>)}

\* the subjects searched for: those matched, and the wildcard characters
\* as subjects
SearchSubjects == SubjectInputs \cup {STAR, GT}

\* the pattern, subjects, messages and initial contexts of the handle calls
ChainPattern == <<"a">>
ChainSubjects == {<<"a">>, <<"b">>}
Seeded(seed) == Object("seed", seed)
MessageOf(c) == IF c = "c1" THEN "m1" ELSE "m2"
SeedOf(c) == IF c = "c1" THEN "s1" ELSE "s2"
IsolationKinds == {"obj", "scalar", "stop"}

----------------------------------------------------------------------------
(* State machine *)

NoMatch == [done |-> FALSE, subject |-> <<>>, nodes |-> <<>>, unsorted |-> <<>>,
            payloads |-> <<>>, handlers |-> <<>>]

Calls == {"c1", "c2"}

NoSearch == [done |-> FALSE, subject |-> <<>>, found |-> FALSE, node |-> <<>>]
NoAdd == [made |-> FALSE, pattern |-> <<>>, handle |-> One(BadItem)]
Noted(pattern, handle) == [made |-> TRUE, pattern |-> pattern, handle |-> handle]

\* new NatsRun(opts), its trie made by new NatsTrie(undefined, opts) with
\* opts.arrayToMapThreshold ?? DEFAULT_ARRAY_TO_MAP_THRESHOLD as threshold
InitTrie(strategy, custom, threshold) ==
  /\ sortStrategy = strategy
  /\ customSort = custom
  /\ count = 0
  /\ pool = StringPool(<<STAR, GT>>)
  /\ trie = (<<>> :> createTrie(FALSE, NoTopic))
  /\ lastError = ""
  /\ lastMatch = NoMatch
  /\ registered = <<>>
  /\ calls = [c \in Calls |-> IdleCall]
  /\ lastAdd = NoAdd
  /\ lastSearch = NoSearch
  /\ arrayToMapThreshold = threshold
  /\ tokenPool = TokenPool
  /\ poolLog = <<>>
  /\ detached = NoDetached
  /\ bloom = Bloomrun
  /\ bloomLog = <<>>

\* new NatsRun(opts)
InitWith(strategy, custom) == InitTrie(strategy, custom, DEFAULT_ARRAY_TO_MAP_THRESHOLD)

Init == InitWith("specificity", "")

\* A router whose root branch is full: as many one-token patterns as the
\* branch keeps in its array, each registered with one handler
Digits == <<"0", "1", "2", "3", "4", "5", "6", "7", "8", "9">>
FillerPattern(n) == <<"f", Digits[(n \div 10) + 1], Digits[(n % 10) + 1]>>
FillerGroup(n) == addPayloadMetadata(FnItem("pass"), 0, n - 1, FillerPattern(n))
WideAfter(n) ==
  [count |-> n,
   pool |-> [ids |-> [str \in {STAR, GT} \cup {FillerPattern(k) : k \in 1..n} |->
                        IF str = STAR THEN 1 ELSE IF str = GT THEN 2
                        ELSE 2 + (CHOOSE k \in 1..n : FillerPattern(k) = str)],
             nextId |-> n + 3],
   trie |-> [path \in {<<>>} \cup {<<k + 2>> : k \in 1..n} |->
               IF path = <<>>
               THEN [createTrie(FALSE, NoTopic) EXCEPT !.kids = [k \in 1..n |-> k + 2]]
               ELSE [createTrie(TRUE, path[1]) EXCEPT !.p = <<FillerGroup(path[1] - 2)>>]],
   registered |-> [k \in 1..n |-> FillerGroup(k)]]

\* WideAfter(n + 1) is what add makes of WideAfter(n)
WideStep(n) ==
  LET w == WideAfter(n)
      r == add(w.count, w.trie, w.pool, FillerPattern(n + 1), One(FnItem("pass")), 0)
      v == WideAfter(n + 1)
  IN  /\ r.error = ""
      /\ r.count = v.count /\ r.trie = v.trie /\ r.pool = v.pool
      /\ w.registered \o r.handlers = v.registered

InitWide ==
  /\ WideAfter(0).trie = (<<>> :> createTrie(FALSE, NoTopic))
  /\ WideAfter(0).pool = StringPool(<<STAR, GT>>)
  /\ \A n \in 0..(DEFAULT_ARRAY_TO_MAP_THRESHOLD - 1) : WideStep(n)
  /\ LET w == WideAfter(DEFAULT_ARRAY_TO_MAP_THRESHOLD)
     IN  /\ sortStrategy = "specificity"
         /\ customSort = ""
         /\ count = w.count
         /\ trie = w.trie
         /\ pool = w.pool
         /\ registered = w.registered
  /\ lastError = ""
  /\ lastMatch = NoMatch
  /\ calls = [c \in Calls |-> IdleCall]
  /\ lastAdd = NoAdd
  /\ lastSearch = NoSearch
  /\ arrayToMapThreshold = DEFAULT_ARRAY_TO_MAP_THRESHOLD
  /\ tokenPool = TokenPool
  /\ poolLog = <<>>
  /\ detached = NoDetached
  /\ bloom = Bloomrun
  /\ bloomLog = <<>>
InitRouters == Init \/ InitWide

\* the registrations a router starts with
Preloaded ==
  IF Len(registered) > 0 /\ registered[1].pattern = FillerPattern(1)
  THEN DEFAULT_ARRAY_TO_MAP_THRESHOLD ELSE 0
InitInsertion == InitWith("insertion", "")
InitCustom == \E c \in CustomSorts : InitWith("custom", c)
InitAny ==
  \/ InitWith("specificity", "")
  \/ InitWith("insertion", "")
  \/ InitWith("custom", "prioritySort")

\* a call of router.add(pattern, handle, metadata), with what is put on
\* record of its arguments
AddNoting(pattern, handle, metadata, noted) ==
  /\ count + Len(handle.items) <= Preloaded + MaxCount
  /\ LET r == add(count, trie, pool, pattern, handle, metadata)
     IN  /\ count' = r.count
         /\ trie' = r.trie
         /\ pool' = r.pool
         /\ lastError' = r.error
         /\ registered' = registered \o r.handlers
  /\ lastMatch' = NoMatch
  /\ lastAdd' = noted
  /\ lastSearch' = NoSearch
  /\ UNCHANGED <<sortStrategy, customSort, calls,
                 arrayToMapThreshold, tokenPool, poolLog, detached, bloom, bloomLog>>

AddCall(pattern, handle, metadata) == AddNoting(pattern, handle, metadata, NoAdd)

\* a call of router.match(subject)
MatchCall(subject) ==
  LET m == RouterMatch(sortStrategy, customSort, trie, pool, subject)
  IN  /\ pool' = m.pool
      /\ lastMatch' = [done |-> TRUE, subject |-> subject, nodes |-> m.nodes,
                       unsorted |-> m.unsorted, payloads |-> m.payloads,
                       handlers |-> m.handlers]
      /\ lastError' = ""
      /\ UNCHANGED <<sortStrategy, customSort, count, trie, registered, calls, lastAdd,
                     lastSearch,
                 arrayToMapThreshold, tokenPool, poolLog, detached, bloom, bloomLog>>

\* a call of trie.search(subject) on the router's trie
SearchCall(subject) ==
  LET r == TrieSearch(trie, pool, subject)
  IN  /\ pool' = r.pool
      /\ lastSearch' = [done |-> TRUE, subject |-> subject, found |-> r.found,
                        node |-> r.node]
      /\ lastError' = ""
      /\ UNCHANGED <<sortStrategy, customSort, count, trie, lastMatch, registered,
                     calls, lastAdd,
                 arrayToMapThreshold, tokenPool, poolLog, detached, bloom, bloomLog>>

\* a call of trie.insert(subject, payload) on a trie used by itself; the
\* payload is one handler group
InsertCall(subject) ==
  /\ Len(registered) < Preloaded + MaxCount
  /\ LET payload == <<addPayloadMetadata(FnItem("pass"), 0, Len(registered), subject)>>
         r == TrieInsert(trie, pool, subject, payload)
     IN  /\ trie' = r.trie
         /\ pool' = r.pool
         /\ lastError' = r.error
         /\ registered' = IF r.error = "" THEN registered \o payload ELSE registered
  /\ UNCHANGED <<sortStrategy, customSort, count, lastMatch, calls, lastAdd, lastSearch,
                 arrayToMapThreshold, tokenPool, poolLog, detached, bloom, bloomLog>>

\* the calls on a pool used by itself
Logged(op, str, id, error, defined) ==
  [op |-> op, str |-> str, id |-> id, error |-> error, defined |-> defined]

PoolCall(tp, entry) ==
  /\ Len(poolLog) < MaxPoolCalls
  /\ tokenPool' = tp
  /\ poolLog' = Append(poolLog, entry)
  /\ UNCHANGED <<sortStrategy, customSort, count, trie, pool, lastError, lastMatch,
                 registered, calls, lastAdd, lastSearch, arrayToMapThreshold, detached,
                 bloom, bloomLog>>

InternCall(str) ==
  LET r == TokenPool_intern(tokenPool, str)
  IN  PoolCall(r.pool, Logged("intern", str, r.id, r.error, r.error = ""))

GetStringCall(id) ==
  LET r == TokenPool_getString(tokenPool, id)
  IN  PoolCall(tokenPool, Logged("getString", r.str, id, r.error, r.defined))

ClearCall ==
  PoolCall(TokenPool_clear(tokenPool), Logged("clear", <<>>, 0, "", FALSE))

\* a call of router.handle(subject, message, ctx) whose handlers do not
\* await next, up to its await
HandleDetachedCall(subject, message, ctx) ==
  /\ detached.state = "idle"
  /\ LET m == RouterMatch(sortStrategy, customSort, trie, pool, subject)
     IN  /\ pool' = m.pool
         /\ detached' = handleDetached(m.handlers, message, ctx)
  /\ lastError' = ""
  /\ UNCHANGED <<sortStrategy, customSort, count, trie, lastMatch, registered, calls,
                 lastAdd, lastSearch, arrayToMapThreshold, tokenPool, poolLog, bloom,
                 bloomLog>>

\* the next microtask of the call runs
ResumeDetached ==
  /\ detached.state \in {"run", "resolved"}
  /\ Len(detached.queue) > 0
  /\ detached' = resumeDetached(detached)
  /\ UNCHANGED <<sortStrategy, customSort, count, trie, pool, lastError, lastMatch,
                 registered, calls, lastAdd, lastSearch, arrayToMapThreshold, tokenPool,
                 poolLog, bloom, bloomLog>>

\* the caller has the outcome and no microtask is left
ReturnDetached ==
  /\ detached.state = "resolved"
  /\ Len(detached.queue) = 0
  /\ detached' = NoDetached
  /\ UNCHANGED <<sortStrategy, customSort, count, trie, pool, lastError, lastMatch,
                 registered, calls, lastAdd, lastSearch, arrayToMapThreshold, tokenPool,
                 poolLog, bloom, bloomLog>>

\* the calls on a Bloomrun; the payload of an add is the number of the call
BloomCall(b, op, pattern) ==
  /\ Len(bloomLog) < MaxBloomCalls
  /\ bloom' = b
  /\ bloomLog' = Append(bloomLog, [op |-> op, pattern |-> pattern,
                                  payload |-> Len(bloomLog) + 1])
  /\ UNCHANGED <<sortStrategy, customSort, count, trie, pool, lastError, lastMatch,
                 registered, calls, lastAdd, lastSearch, arrayToMapThreshold,
                 tokenPool, poolLog, detached>>

BloomAddCall(pattern) ==
  BloomCall(Bloomrun_add(bloom, pattern, Len(bloomLog) + 1), "add", pattern)

BloomRemoveCall(pattern) ==
  BloomCall(Bloomrun_remove(bloom, pattern), "remove", pattern)

\* any pattern, valid or not, with one handler function
Add == \E pattern \in PatternInputs : AddCall(pattern, One(FnItem("pass")), 0)

\* every accepted and rejected shape of the handle argument, with metadata
AddShapes ==
  \E pattern \in ChosenPatterns, handle \in HandleInputs, priority \in {0, 1} :
    AddCall(pattern, handle, priority)

\* one handler function with a priority for the comparator
AddPriority ==
  \E pattern \in ChosenPatterns, priority \in {0, 1, 2} :
    AddCall(pattern, One(FnItem("pass")), priority)

\* registrations that precede the add call whose arguments are noted
AddBefore ==
  \E pattern \in ChosenPatterns :
    /\ ~lastAdd.made
    /\ AddCall(pattern, One(FnItem("pass")), 0)

\* any pattern with any shape of the handle argument, the arguments noted
AddValidated ==
  \E pattern \in ValidationPatterns, handle \in ValidationHandles :
    /\ ~lastAdd.made
    /\ AddNoting(pattern, handle, 0, Noted(pattern, handle))

MatchProbe == \E subject \in ProbeSubjects : MatchCall(subject)

Match == \E subject \in SubjectInputs : MatchCall(subject)

MatchChosen == \E subject \in ChosenSubjects : MatchCall(subject)

Next == Add \/ Match
NextShapes == AddShapes \/ MatchChosen
NextCustom == AddPriority \/ MatchChosen

Spec == InitRouters /\ [][Next]_vars
SpecInsertion == InitInsertion /\ [][Next]_vars
SpecCustom == InitCustom /\ [][NextCustom]_vars
SpecShapes == InitAny /\ [][NextShapes]_vars

\* a call of router.handle(subject, message, ctx) up to its first suspension
HandleCall(c, subject, message, ctx) ==
  /\ calls[c].state = "idle"
  /\ LET m == RouterMatch(sortStrategy, customSort, trie, pool, subject)
     IN  /\ pool' = m.pool
         /\ calls' = [calls EXCEPT ![c] = handleStart(m.handlers, subject, message, ctx)]
  /\ lastError' = ""
  /\ UNCHANGED <<sortStrategy, customSort, count, trie, lastMatch, registered, lastAdd,
                 lastSearch,
                 arrayToMapThreshold, tokenPool, poolLog, detached, bloom, bloomLog>>

\* the handler on top of a call runs
RunHandler(c) ==
  /\ calls[c].state = "run"
  /\ calls[c].ret.tag = "none"
  /\ Top(calls[c]).type = "h"
  /\ Top(calls[c]).pc % 2 = 0
  /\ calls' = [calls EXCEPT ![c] = runHandler(calls[c])]
  /\ UNCHANGED <<sortStrategy, customSort, count, trie, pool, lastError, lastMatch,
                 registered, lastAdd, lastSearch,
                 arrayToMapThreshold, tokenPool, poolLog, detached, bloom, bloomLog>>

\* the next call on top of a call resumes after its await
ResumeNext(c) ==
  /\ calls[c].state = "run"
  /\ calls[c].ret.tag = "none"
  /\ Top(calls[c]).type = "n"
  /\ Top(calls[c]).pc = 0
  /\ calls' = resumeNext(calls, c)
  /\ UNCHANGED <<sortStrategy, customSort, count, trie, pool, lastError, lastMatch,
                 registered, lastAdd, lastSearch,
                 arrayToMapThreshold, tokenPool, poolLog, detached, bloom, bloomLog>>

\* a completion reaches whoever awaits it
Settle(c) ==
  /\ calls[c].state = "run"
  /\ calls[c].ret.tag # "none"
  /\ calls' = [calls EXCEPT ![c] = settle(calls[c])]
  /\ UNCHANGED <<sortStrategy, customSort, count, trie, pool, lastError, lastMatch,
                 registered, lastAdd, lastSearch,
                 arrayToMapThreshold, tokenPool, poolLog, detached, bloom, bloomLog>>

\* the caller takes the outcome of a call
Return(c) ==
  /\ calls[c].state \in {"resolved", "rejected"}
  /\ calls' = [calls EXCEPT ![c] = IdleCall]
  /\ UNCHANGED <<sortStrategy, customSort, count, trie, pool, lastError, lastMatch,
                 registered, lastAdd, lastSearch,
                 arrayToMapThreshold, tokenPool, poolLog, detached, bloom, bloomLog>>

AddHandler == \E kind \in Kinds : AddCall(ChainPattern, One(FnItem(kind)), 0)
Handle ==
  \E subject \in ChainSubjects, ctx \in {EmptyCtx, Seeded(SeedOf("c1"))} :
    HandleCall("c1", subject, MessageOf("c1"), ctx)
Run == RunHandler("c1")
Resume == ResumeNext("c1")
Deliver == Settle("c1")
Done == Return("c1")

AddIsolated == \E kind \in IsolationKinds : AddCall(ChainPattern, One(FnItem(kind)), 0)
HandleAny == \E c \in Calls : HandleCall(c, ChainPattern, MessageOf(c), Seeded(SeedOf(c)))
RunAny == \E c \in Calls : RunHandler(c)
ResumeAny == \E c \in Calls : ResumeNext(c)
DeliverAny == \E c \in Calls : Settle(c)
DoneAny == \E c \in Calls : Return(c)

NextChain == AddHandler \/ Handle \/ Run \/ Resume \/ Deliver \/ Done
NextIsolation == AddIsolated \/ HandleAny \/ RunAny \/ ResumeAny \/ DeliverAny \/ DoneAny

\* add, and match and handle of any subject; a match call is made between
\* handle calls, and a handle call before the match calls that follow an add
AddForSubjects == \E pattern \in SubjectPatterns : AddCall(pattern, One(FnItem("obj")), 0)
MatchAnySubject ==
  \E subject \in AnySubjects :
    /\ calls["c1"].state = "idle"
    /\ MatchCall(subject)
HandleAnySubject ==
  \E subject \in AnySubjects, ctx \in {EmptyCtx, Seeded(SeedOf("c1"))} :
    /\ ~lastMatch.done
    /\ HandleCall("c1", subject, MessageOf("c1"), ctx)

NextSubjects ==
  AddForSubjects \/ MatchAnySubject \/ HandleAnySubject \/ Run \/ Resume \/ Deliver \/ Done
SpecSubjects == Init /\ [][NextSubjects]_vars

\* a trie made with a small threshold or with none given, and the trie of
\* the wide router
InitThreshold ==
  \/ \E threshold \in {SmallThreshold, DEFAULT_ARRAY_TO_MAP_THRESHOLD} :
       InitTrie("specificity", "", threshold)
  \/ InitWide
Insert == \E subject \in PatternInputs : InsertCall(subject)
NextThreshold == Insert
SpecThreshold == InitThreshold /\ [][NextThreshold]_vars

\* the strings interned: the wildcards, two literals and the empty string;
\* the ids resolved: one below and one above those a pool of these issues
PoolStrings == {STAR, GT, <<"a">>, <<"b">>, <<>>}
PoolIds == (0 - 1)..4
Intern == \E str \in PoolStrings : InternCall(str)
GetString == \E id \in PoolIds : GetStringCall(id)
Clear == ClearCall
NextPool == Intern \/ GetString \/ Clear
SpecPool == Init /\ [][NextPool]_vars

\* add, match, search and handle on a fresh and on a wide router; match and
\* search are called between handle calls
PermanentKinds == {"obj", "stop"}
PermanentPatterns == {join(<<<<"a">>, <<"b">>>>), GT}
PermanentSubjects == ChosenSubjects \cup {FillerPattern(1)}
AddPermanent ==
  \E pattern \in PermanentPatterns, kind \in PermanentKinds :
    AddCall(pattern, One(FnItem(kind)), 0)
MatchPermanent ==
  \E subject \in PermanentSubjects :
    /\ calls["c1"].state = "idle"
    /\ ~lastSearch.done
    /\ MatchCall(subject)
SearchPermanent ==
  \E subject \in PermanentSubjects :
    /\ calls["c1"].state = "idle"
    /\ ~lastMatch.done
    /\ SearchCall(subject)
HandlePermanent ==
  \E subject \in PermanentSubjects :
    /\ ~lastMatch.done
    /\ ~lastSearch.done
    /\ HandleCall("c1", subject, MessageOf("c1"), EmptyCtx)
NextPermanent ==
  AddPermanent \/ MatchPermanent \/ SearchPermanent \/ HandlePermanent
    \/ Run \/ Resume \/ Deliver \/ Done
SpecPermanent == InitRouters /\ [][NextPermanent]_vars

\* handlers that do not await next, and handle calls on them
AddDetached == \E kind \in DetachedKinds : AddCall(ChainPattern, One(FnItem(kind)), 0)
HandleDetached ==
  \E subject \in ChainSubjects, ctx \in {EmptyCtx, Seeded(SeedOf("c1"))} :
    HandleDetachedCall(subject, MessageOf("c1"), ctx)
NextDetached == AddDetached \/ HandleDetached \/ ResumeDetached \/ ReturnDetached
SpecDetached == Init /\ [][NextDetached]_vars

\* patterns of one and two entries that share entries with each other
BloomPatterns ==
  { <<<<"a", 1>>>>, <<<<"b", 2>>>>, <<<<"a", 2>>>>,
    <<<<"a", 1>>, <<"b", 2>>>> }
BloomAdd == \E pattern \in BloomPatterns : BloomAddCall(pattern)
BloomRemove == \E pattern \in BloomPatterns : BloomRemoveCall(pattern)
NextBloom == BloomAdd \/ BloomRemove
SpecBloom == Init /\ [][NextBloom]_vars

Search == \E subject \in SearchSubjects : SearchCall(subject)
NextSearch == Add \/ Search
SpecSearch == InitRouters /\ [][NextSearch]_vars

NextValidation == AddBefore \/ AddValidated \/ MatchProbe
SpecValidation == Init /\ [][NextValidation]_vars

SpecChain == Init /\ [][NextChain]_vars
SpecIsolation == Init /\ [][NextIsolation]_vars

\* the scheduling of a handle call: a handler that can run runs, a next
\* call that awaits resumes, and a completion is delivered
SpecChainFair ==
  /\ Init
  /\ [][NextChain]_vars
  /\ WF_vars(Run)
  /\ WF_vars(Resume)
  /\ WF_vars(Deliver)

----------------------------------------------------------------------------
(* Properties of matching and ordering *)

Range(seq) == {seq[i] : i \in DOMAIN seq}

\* the position of a group in a list that holds it once
IndexIn(seq, g) == CHOOSE i \in DOMAIN seq : seq[i] = g

\* the groups of a list registered under a pattern, in the list's order
Under(seq, pattern) == SelectSeq(seq, LAMBDA g : g.pattern = pattern)

\* how often a handler occurs in a list of handlers
Occurrences(hs, h) == Cardinality({i \in DOMAIN hs : hs[i] = h})

RECURSIVE TotalOccurrences(_, _)
TotalOccurrences(groups, h) ==
  IF Len(groups) = 0 THEN 0
  ELSE Occurrences(groups[1].handlers, h) + TotalOccurrences(Tail(groups), h)

\* the structural rules: P and S token for token, or P's prefix and a
\* non-empty rest for the final ">"
TokenFits(p, s) == p = STAR \/ p = s
Satisfies(P, S) ==
  \/ /\ Len(P) = Len(S)
     /\ \A i \in 1..Len(P) : TokenFits(P[i], S[i])
  \/ /\ Len(P) >= 1
     /\ P[Len(P)] = GT
     /\ Len(S) > Len(P) - 1
     /\ \A i \in 1..(Len(P) - 1) : TokenFits(P[i], S[i])

SatisfiedBy(g, subject) == Satisfies(split(g.pattern), split(subject))

\* the weight of a pattern: 3 for a literal, 2 for "*", 1 for ">"
PatternWeight(P) ==
  3 * Cardinality({i \in DOMAIN P : P[i] # STAR /\ P[i] # GT})
    + 2 * Cardinality({i \in DOMAIN P : P[i] = STAR})
    + Cardinality({i \in DOMAIN P : P[i] = GT})

\* C1: every group, and so every handler, that match(S) returns was
\* registered under a pattern that S structurally satisfies
C1_MatchSound ==
  lastMatch.done =>
    /\ \A i \in DOMAIN lastMatch.payloads :
         /\ lastMatch.payloads[i] \in Range(registered)
         /\ SatisfiedBy(lastMatch.payloads[i], lastMatch.subject)
    /\ \A k \in DOMAIN lastMatch.handlers :
         \E g \in Range(registered) :
           /\ lastMatch.handlers[k] \in Range(g.handlers)
           /\ SatisfiedBy(g, lastMatch.subject)

\* a match in an array branch that returned a group and left out a
\* registered wildcard pattern
C1_Witness ==
  /\ lastMatch.done
  /\ trie[<<>>].bt = "Array"
  /\ lastMatch.payloads # <<>>
  /\ \E g \in Range(registered) :
       /\ g \notin Range(lastMatch.payloads)
       /\ (STAR \in Range(split(g.pattern)) \/ GT \in Range(split(g.pattern)))

\* C2: match(S) returns every registered group whose pattern S satisfies
C2_MatchComplete ==
  lastMatch.done =>
    \A k \in DOMAIN registered :
      SatisfiedBy(registered[k], lastMatch.subject) =>
        /\ registered[k] \in Range(lastMatch.payloads)
        /\ \A h \in Range(registered[k].handlers) : h \in Range(lastMatch.handlers)

\* a match in a map branch that returned an exact, a "*" and a ">" pattern
\* at once, the ">" standing for more than one token
C2_Witness ==
  /\ lastMatch.done
  /\ trie[<<>>].bt = "Map"
  /\ \E g \in Range(lastMatch.payloads) :
       STAR \notin Range(split(g.pattern)) /\ GT \notin Range(split(g.pattern))
  /\ \E g \in Range(lastMatch.payloads) : STAR \in Range(split(g.pattern))
  /\ \E g \in Range(lastMatch.payloads) :
       /\ GT \in Range(split(g.pattern))
       /\ Len(split(lastMatch.subject)) > Len(split(g.pattern))

\* C4: under 'specificity' the groups come in non-increasing pattern weight
C4_SpecificityOrder ==
  (lastMatch.done /\ sortStrategy = "specificity") =>
    /\ \A i, j \in DOMAIN lastMatch.payloads :
         i < j => PatternWeight(split(lastMatch.payloads[i].pattern))
                    >= PatternWeight(split(lastMatch.payloads[j].pattern))
    /\ lastMatch.handlers = flatHandlers(lastMatch.payloads)

\* a heavier pattern that was registered later and found later comes first
C4_Witness ==
  /\ lastMatch.done
  /\ sortStrategy = "specificity"
  /\ \E i, j \in DOMAIN lastMatch.payloads :
       /\ i < j
       /\ PatternWeight(split(lastMatch.payloads[i].pattern))
            > PatternWeight(split(lastMatch.payloads[j].pattern))
       /\ lastMatch.payloads[i].insertOrder > lastMatch.payloads[j].insertOrder
       /\ IndexIn(lastMatch.unsorted, lastMatch.payloads[i])
            > IndexIn(lastMatch.unsorted, lastMatch.payloads[j])

\* C5: under 'insertion' the groups come in the order of their add calls
C5_InsertionOrder ==
  (lastMatch.done /\ sortStrategy = "insertion") =>
    \A i, j \in DOMAIN lastMatch.payloads :
      i < j => IndexIn(registered, lastMatch.payloads[i])
                 < IndexIn(registered, lastMatch.payloads[j])

\* the trie found a later registration first, under patterns of other shapes
C5_Witness ==
  /\ lastMatch.done
  /\ sortStrategy = "insertion"
  /\ Len(lastMatch.payloads) >= 2
  /\ lastMatch.unsorted # lastMatch.payloads
  /\ \E g \in Range(lastMatch.payloads) : GT \in Range(split(g.pattern))
  /\ \E g \in Range(lastMatch.payloads) : STAR \in Range(split(g.pattern))

\* the comparator the caller configured
Comparator(a, b) ==
  IF customSort = "prioritySort" THEN prioritySort(a, b)
  ELSE IF customSort = "newestFirst" THEN newestFirst(a, b)
  ELSE shortestFirst(a, b)

\* C6: under 'custom' the comparator decides, and ties keep discovery order
C6_CustomOrder ==
  (lastMatch.done /\ sortStrategy = "custom") =>
    /\ Range(lastMatch.payloads) = Range(lastMatch.unsorted)
    /\ Len(lastMatch.payloads) = Len(lastMatch.unsorted)
    /\ \A i, j \in DOMAIN lastMatch.payloads :
         /\ Comparator(lastMatch.payloads[i], lastMatch.payloads[j]) < 0 => i < j
         /\ (i < j /\ Comparator(lastMatch.payloads[i], lastMatch.payloads[j]) = 0)
              => IndexIn(lastMatch.unsorted, lastMatch.payloads[i])
                   < IndexIn(lastMatch.unsorted, lastMatch.payloads[j])

\* the comparator moved a group forward and tied two others
C6_Witness ==
  /\ lastMatch.done
  /\ sortStrategy = "custom"
  /\ lastMatch.unsorted # lastMatch.payloads
  /\ \E i, j \in DOMAIN lastMatch.payloads :
       i < j /\ Comparator(lastMatch.payloads[i], lastMatch.payloads[j]) = 0

\* the patterns with a registered group
RegisteredPatterns == {registered[k].pattern : k \in DOMAIN registered}

\* the handlers a router may hold
HandlerNames == UNION {Range(registered[k].handlers) : k \in DOMAIN registered}

\* C7: nothing is replaced or de-duplicated: every group under a satisfied
\* pattern is returned, each handler as often as it was registered, and a
\* group's handlers stay together in their order
AllReturned ==
  /\ \A pattern \in RegisteredPatterns :
       Satisfies(split(pattern), split(lastMatch.subject)) =>
         /\ Range(Under(lastMatch.payloads, pattern)) = Range(Under(registered, pattern))
         /\ Len(Under(lastMatch.payloads, pattern)) = Len(Under(registered, pattern))
  /\ \A h \in HandlerNames :
       Occurrences(lastMatch.handlers, h)
         = TotalOccurrences(
             SelectSeq(registered, LAMBDA g : SatisfiedBy(g, lastMatch.subject)), h)
  /\ \E cut \in [0..Len(lastMatch.payloads) -> 0..Len(lastMatch.handlers)] :
       /\ cut[0] = 0
       /\ cut[Len(lastMatch.payloads)] = Len(lastMatch.handlers)
       /\ \A i \in DOMAIN lastMatch.payloads :
            /\ cut[i - 1] <= cut[i]
            /\ SubSeq(lastMatch.handlers, cut[i - 1] + 1, cut[i])
                 = lastMatch.payloads[i].handlers

InRegistrationOrder ==
  \A pattern \in RegisteredPatterns :
    Satisfies(split(pattern), split(lastMatch.subject)) =>
      Under(lastMatch.payloads, pattern) = Under(registered, pattern)

\* C7 as stated: whatever the strategy, in relative registration order
C7_AnyStrategy == lastMatch.done => (AllReturned /\ InRegistrationOrder)

\* C7 amended: in relative registration order under 'specificity' and
\* 'insertion'; under 'custom' the comparator orders them
C7_Accumulates ==
  lastMatch.done =>
    /\ AllReturned
    /\ sortStrategy \in {"specificity", "insertion"} => InRegistrationOrder

\* one pattern registered by a list of two handlers and by a group of two
C7_Witness ==
  /\ lastMatch.done
  /\ sortStrategy \in {"specificity", "insertion"}
  /\ \E pattern \in RegisteredPatterns :
       /\ Satisfies(split(pattern), split(lastMatch.subject))
       /\ Len(Under(registered, pattern)) = 3
       /\ \E g \in Range(Under(registered, pattern)) : Len(g.handlers) = 2
       /\ Occurrences(lastMatch.handlers, "pass") = 2

----------------------------------------------------------------------------
(* Properties of the handler chain *)

\* C3: the handler at position N+1 is invoked by a next call of the handler
\* at position N and by nothing else, so that a handler that returns without
\* calling next ends the chain
C3_StrictSequence ==
  \A c \in Calls :
    \A i \in DOMAIN calls[c].invoked :
      calls[c].invoked[i].pos > 1 =>
        calls[c].invoked[i].by = calls[c].invoked[i].pos - 1

\* the error a handler at a position throws, as it was thrown
ErrorOf(pos) == [thrownBy |-> pos, wrapped |-> FALSE]

\* no handler ahead of a position catches what its next call rejects with
NoCatchAhead(call, pos) == \A q \in 1..(pos - 1) : call.handlers[q] # "catch"

Foreign(c) == UNION {{MessageOf(d), SeedOf(d)} : d \in Calls \ {c}}

\* the contexts of a call: the current one, those its handlers received and
\* the one it resolved with
ContextsOf(call) ==
  {call.ctx, call.result.ctx}
    \cup {call.invoked[i].ctx : i \in DOMAIN call.invoked}
    \cup {call.invoked[i].snap : i \in DOMAIN call.invoked}

\* C9: nothing of another handle call's context is in a call's context
C9_Isolated ==
  \A c \in Calls :
    \A ctx \in ContextsOf(calls[c]) :
      \A key \in Keys : ctx[key] \notin Foreign(c)

\* two calls of one subject, each suspended after it merged data of its own
C9_Witness ==
  /\ \A c \in Calls :
       /\ calls[c].state = "run"
       /\ Len(calls[c].invoked) >= 2
       /\ calls[c].subject = ChainPattern
  /\ calls["c1"].ctx["k"] = MessageOf("c1")
  /\ calls["c2"].ctx["_lastData"] = MessageOf("c2")

\* the merge of data into a context, by the rules of next(data)
Merged(before, data) ==
  IF data.tag \in {"string", "number", "boolean"}
  THEN [before EXCEPT !["_lastData"] = data.str]
  ELSE IF data.tag = "object"
  THEN [key \in Keys |-> IF data.obj[key] = Absent THEN before[key] ELSE data.obj[key]]
  ELSE before

\* C10: the handler next invokes receives the context before the call merged
\* with data by those rules; a chain of next() alone ends in the initial one
C10_MergeSemantics ==
  \A c \in Calls :
    LET call == calls[c]
    IN  /\ \A i \in DOMAIN call.invoked :
             (call.invoked[i].by # 0 /\ call.invoked[i].data.tag # "function") =>
               call.invoked[i].ctx = Merged(call.invoked[i].snap, call.invoked[i].data)
        /\ (\A q \in DOMAIN call.handlers : call.handlers[q] = "pass") =>
             /\ call.ctx = call.initial
             /\ \A i \in DOMAIN call.invoked : call.invoked[i].ctx = call.initial
             /\ call.state = "resolved" => call.result = Value(call.initial)

\* an object overrode a key and kept another, after a scalar was stored
C10_Witness ==
  \E c \in Calls :
    \E i \in DOMAIN calls[c].invoked :
      LET inv == calls[c].invoked[i]
      IN  /\ inv.data.tag = "object"
          /\ inv.snap["k"] = "f"
          /\ inv.snap["seed"] = SeedOf(c)
          /\ inv.ctx["k"] = MessageOf(c)
          /\ inv.ctx["seed"] = SeedOf(c)

\* the handlers that call next once and return what it returns, or nothing
OnceKinds == {"pass", "obj", "scalar", "num", "flag", "fn", "await"}
OnceChain(call) ==
  /\ Len(call.handlers) > 0
  /\ \A q \in DOMAIN call.handlers : call.handlers[q] \in OnceKinds

\* what a handler of a kind merges into the context it calls next with
MergedBy(before, kind, message) ==
  IF kind = "fn" THEN [before EXCEPT !["k"] = "f"]
  ELSE Merged(before, DataOf(kind, message))

\* the initial context with the merges of the first n handlers, in order
RECURSIVE MergedThrough(_, _)
MergedThrough(call, n) ==
  IF n = 0 THEN call.initial
  ELSE MergedBy(MergedThrough(call, n - 1), call.handlers[n], call.message)

StopKinds == {"stop", "stopSync", "result"}
ReturningKinds == OnceKinds \ {"await"}

\* position p holds the first handler that does not call next, and every
\* handler before it is of one of the kinds
StopsAt(call, p, kinds) ==
  /\ p \in DOMAIN call.handlers
  /\ call.handlers[p] \in StopKinds
  /\ \A q \in 1..(p - 1) : call.handlers[q] \in kinds

\* what the handler at position p returns, given the context it ran with
ReturnOf(kind, before) ==
  IF kind = "result" THEN [before EXCEPT !["_lastData"] = "stopped"] ELSE before

C18_InvokedAtMostOnce ==
  \A c \in Calls :
    /\ Len(calls[c].handlers) <= Len(registered)
    /\ \A p \in DOMAIN calls[c].handlers :
         /\ registered[p].handlers = <<calls[c].handlers[p]>>
         /\ Cardinality({i \in DOMAIN calls[c].invoked : calls[c].invoked[i].pos = p}) <= 1
    /\ \A i \in DOMAIN calls[c].invoked : calls[c].invoked[i].pos \in DOMAIN calls[c].handlers

\* a handler called next twice, the second time after the handler it had
\* invoked returned without calling next, and all three handlers ran once
C18_Witness ==
  /\ calls["c1"].state = "resolved"
  /\ calls["c1"].handlers = <<"twice", "stop", "obj">>
  /\ Len(calls["c1"].invoked) = 3
  /\ calls["c1"].invoked[2].by = 1
  /\ calls["c1"].invoked[3].by = 1

----------------------------------------------------------------------------
(* Properties of argument validation *)

\* the most recent router call was an add call whose arguments are on record
JustAdded == lastAdd.made /\ ~lastMatch.done

\* a token of the pattern begins / ends at character i
TokenStart(P, i) == i = 1 \/ P[i - 1] = "."
TokenEnd(P, i) == i = Len(P) \/ P[i + 1] = "."

\* the pattern is empty, has a leading, trailing or doubled dot, or has a
\* ">" token before its last token
EmptySegment(P) ==
  \/ P[1] = "."
  \/ P[Len(P)] = "."
  \/ \E i \in 1..(Len(P) - 1) : P[i] = "." /\ P[i + 1] = "."
InnerGt(P) ==
  \E i \in 1..(Len(P) - 1) : P[i] = ">" /\ TokenStart(P, i) /\ P[i + 1] = "."
InvalidPattern(P) == Len(P) = 0 \/ EmptySegment(P) \/ InnerGt(P)

\* the handle argument is a function, a handler group or a list of them
WellFormed(item) ==
  \/ item.tag = "fn"
  \/ item.tag = "payload" /\ NotAFunction \notin Range(item.handlers)
ValidHandle(handle) == \A i \in DOMAIN handle.items : WellFormed(handle.items[i])

\* the handlers on record under a pattern
GroupsUnder(P) == {i \in DOMAIN registered : registered[i].pattern = P}

C14_FailedAddNoEffect ==
  [][(lastAdd'.made /\ ~lastAdd.made /\ lastError' # "") =>
       /\ trie' = trie
       /\ pool' = pool
       /\ registered' = registered
       /\ \A S \in ProbeSubjects :
            RouterMatch(sortStrategy, customSort, trie', pool', S).handlers
              = RouterMatch(sortStrategy, customSort, trie, pool, S).handlers]_vars

\* add was refused for the second item of a list, after the counter was
\* advanced for the first, on a router that held one registration
C14_Witness ==
  /\ JustAdded
  /\ lastAdd.handle = Many(<<FnItem("pass"), BadItem>>)
  /\ lastAdd.pattern = join(<<<<"a">>, <<"b">>>>)
  /\ lastError = "NatsRunHandlerError"
  /\ Len(registered) = 1
  /\ count = 2

\* the groups an accepted handle argument is registered as
GroupsOf(handle) == [i \in DOMAIN handle.items |-> handle.items[i].handlers]

\* C19: add fails with the handler error when the handler argument is null
\* or undefined, another value that is no function, a list that holds such a
\* value, or a malformed handler group, whatever the pattern; given a valid
\* pattern it succeeds for a function, a list of functions, a handler group
\* and a list of handler groups, and registers one group for each
C19_HandlerValidation ==
  JustAdded =>
    /\ ~ValidHandle(lastAdd.handle) => lastError = "NatsRunHandlerError"
    /\ (ValidHandle(lastAdd.handle) /\ ~InvalidPattern(lastAdd.pattern)) =>
         /\ lastError = ""
         /\ LET n == Len(lastAdd.handle.items)
                m == Len(registered)
            IN  /\ m >= n
                /\ \A i \in 1..n :
                     /\ registered[m - n + i].handlers = GroupsOf(lastAdd.handle)[i]
                     /\ registered[m - n + i].pattern = lastAdd.pattern

\* a list whose second group holds an entry that is no function was refused
C19_Witness ==
  /\ JustAdded
  /\ lastAdd.handle = Many(<<PayloadItem(<<"obj">>), PayloadItem(<<"obj", NotAFunction>>)>>)
  /\ ~InvalidPattern(lastAdd.pattern)
  /\ lastError = "NatsRunHandlerError"

----------------------------------------------------------------------------
(* Properties of subjects at match and handle time *)

NoneSatisfied(subject) == \A g \in Range(registered) : ~SatisfiedBy(g, subject)

----------------------------------------------------------------------------
(* Properties of the specificity strategy *)

\* the pattern holds a wildcard token / how many literal tokens it holds
HasWildcard(P) == \E i \in DOMAIN P : P[i] = STAR \/ P[i] = GT
Literals(P) == Cardinality({i \in DOMAIN P : P[i] # STAR /\ P[i] # GT})

\* C16: under the specificity strategy, the groups registered under the
\* all-literal pattern equal to the subject come, in match(S), before every
\* group registered under a pattern with "*" or ">", in whatever order they
\* were registered
C16_ExactFirst ==
  (lastMatch.done /\ sortStrategy = "specificity") =>
    \A i, j \in DOMAIN lastMatch.payloads :
      ( /\ lastMatch.payloads[i].pattern = lastMatch.subject
        /\ ~HasWildcard(split(lastMatch.payloads[i].pattern))
        /\ HasWildcard(split(lastMatch.payloads[j].pattern)) ) => i < j

\* the exact pattern was registered last and came first, before a "*" and
\* a ">" pattern
C16_Witness ==
  /\ lastMatch.done
  /\ Len(lastMatch.payloads) = 3
  /\ lastMatch.payloads[1].pattern = lastMatch.subject
  /\ lastMatch.payloads[1].insertOrder > lastMatch.payloads[2].insertOrder
  /\ lastMatch.payloads[1].insertOrder > lastMatch.payloads[3].insertOrder
  /\ STAR \in Range(split(lastMatch.payloads[2].pattern))
  /\ GT \in Range(split(lastMatch.payloads[3].pattern))

EndsGt(P) == Len(P) > 0 /\ P[Len(P)] = GT

\* C17 as stated: of two groups matched for one subject whose patterns have
\* the same number of tokens, the one with more literal tokens is never
\* placed after the one with fewer
C17_MoreLiteralsFirst ==
  (lastMatch.done /\ sortStrategy = "specificity") =>
    \A i, j \in DOMAIN lastMatch.payloads :
      LET Pi == split(lastMatch.payloads[i].pattern)
          Pj == split(lastMatch.payloads[j].pattern)
      IN  (Len(Pi) = Len(Pj) /\ Literals(Pi) > Literals(Pj)) => i < j

\* C17 as the code has it: the group with more literal tokens comes first,
\* except that a pattern that ends in ">" and has one literal more than a
\* pattern without ">" weighs the same ("a.>" and "*.*"), and these two
\* stay in the order in which the trie search found them
C17_MoreLiteralsHeavier ==
  (lastMatch.done /\ sortStrategy = "specificity") =>
    \A i, j \in DOMAIN lastMatch.payloads :
      LET Pi == split(lastMatch.payloads[i].pattern)
          Pj == split(lastMatch.payloads[j].pattern)
      IN  (Len(Pi) = Len(Pj) /\ Literals(Pi) > Literals(Pj)) =>
            IF EndsGt(Pi) /\ ~EndsGt(Pj) /\ Literals(Pi) = Literals(Pj) + 1
            THEN i < j <=> IndexIn(lastMatch.unsorted, lastMatch.payloads[i])
                             < IndexIn(lastMatch.unsorted, lastMatch.payloads[j])
            ELSE i < j

\* a pattern of one literal and "*" was registered and found after "*.*"
\* and came before it
C17_Witness ==
  /\ lastMatch.done
  /\ \E i, j \in DOMAIN lastMatch.payloads :
       /\ i < j
       /\ lastMatch.payloads[i].pattern = join(<<<<"a">>, STAR>>)
       /\ lastMatch.payloads[j].pattern = join(<<STAR, STAR>>)
       /\ lastMatch.payloads[i].insertOrder > lastMatch.payloads[j].insertOrder
       /\ IndexIn(lastMatch.unsorted, lastMatch.payloads[i])
            > IndexIn(lastMatch.unsorted, lastMatch.payloads[j])

----------------------------------------------------------------------------
(* Properties of the empty subject *)

RegisteredUnder(patterns) == {g \in Range(registered) : g.pattern \in patterns}

\* C20: a match of the empty subject returns exactly the groups registered
\* under ">", and nothing registered under another pattern
C20_EmptySubjectOnlyGt ==
  (lastMatch.done /\ lastMatch.subject = <<>>) =>
    /\ Range(lastMatch.payloads) = RegisteredUnder({GT})
    /\ Len(lastMatch.payloads) = Cardinality(RegisteredUnder({GT}))

----------------------------------------------------------------------------
(* Properties of the branch representation *)

\* the registrations made by add calls after the router was set up, and the
\* router that a fresh router becomes by the same add calls: its nodes have
\* few siblings, and its branches are in list form
Added == SubSeq(registered, Preloaded + 1, Len(registered))

RECURSIVE Replayed(_, _)
Replayed(groups, n) ==
  IF n = 0
  THEN [count |-> 0, trie |-> (<<>> :> createTrie(FALSE, NoTopic)),
        pool |-> StringPool(<<STAR, GT>>)]
  ELSE LET before == Replayed(groups, n - 1)
           r == add(before.count, before.trie, before.pool, groups[n].pattern,
                    One(PayloadItem(groups[n].handlers)), groups[n].priority)
       IN  [count |-> r.count, trie |-> r.trie, pool |-> r.pool]

PatternsOf(groups) == [i \in DOMAIN groups |-> groups[i].pattern]

\* C21: for the same add calls, match returns the nodes of the same
\* patterns, and the router the same groups in the same order, whether the
\* branches traversed are in list form or in map form, however many siblings
\* the nodes have
C21_RepresentationFree ==
  lastMatch.done =>
    LET few == Replayed(Added, Len(Added))
        m == RouterMatch(sortStrategy, customSort, few.trie, few.pool, lastMatch.subject)
    IN  /\ Range(PatternsOf(m.unsorted)) = Range(PatternsOf(lastMatch.unsorted))
        /\ PatternsOf(m.payloads) = PatternsOf(lastMatch.payloads)

----------------------------------------------------------------------------
(* Properties of the traversals *)

\* C22: a call of match changes nothing of the trie and nothing of its token
\* pool: no node, branch, payload or interned token is created or modified
C22_MatchReadOnly ==
  [][lastMatch'.done => (trie' = trie /\ pool' = pool)]_vars

\* C23: search returns a node exactly when match of the same subject on the
\* same trie returns some node, and the node it returns is one of them
C23_SearchIsExistence ==
  lastSearch.done =>
    LET m == TrieMatch(trie, pool, lastSearch.subject)
    IN  /\ lastSearch.found <=> m.results # <<>>
        /\ lastSearch.found => lastSearch.node \in Range(m.results)

\* a search went into the literal child, found nothing there and returned
\* the node of a pattern with "*", one of the two nodes match returns
C23_Witness ==
  /\ lastSearch.done
  /\ lastSearch.found
  /\ lastSearch.subject = join(<<<<"a">>, <<"a">>>>)
  /\ \E g \in Range(registered) : g.pattern = join(<<<<"a">>, <<"b">>>>)
  /\ \E g \in Range(trie[lastSearch.node].p) : g.pattern = join(<<STAR, <<"a">>>>)
  /\ Len(TrieMatch(trie, pool, lastSearch.subject).results) = 2

(* Properties of the message along the chain *)

\* C24: every handler invoked in one handle call receives the subject and
\* the message data that were passed to handle, whatever data the handlers
\* before it passed to next
C24_MessageInvariant ==
  \A i \in DOMAIN calls["c1"].invoked :
    calls["c1"].invoked[i].msg = Msg(calls["c1"].subject, calls["c1"].message)

\* a handler was invoked by a next call that was given a number and another
\* by a next call that was given an object
C24_Witness ==
  /\ Len(calls["c1"].invoked) = 3
  /\ calls["c1"].invoked[2].data = DataOf("num", MessageOf("c1"))
  /\ calls["c1"].invoked[3].data = DataOf("obj", MessageOf("c1"))

(* Properties of branch promotion *)

\* C25: a node's branch is in list form while the node has at most as many
\* children as the trie's configured threshold, and in map form once an
\* insert has pushed its size past the threshold
C25_PromotedPastThreshold ==
  \A path \in DOMAIN trie :
    trie[path].bt = "Array" <=> BranchSize(trie[path]) <= arrayToMapThreshold

\* the same with the default threshold in place of the configured one
C25_PromotedPastDefault ==
  \A path \in DOMAIN trie :
    trie[path].bt = "Array" <=> BranchSize(trie[path]) <= DEFAULT_ARRAY_TO_MAP_THRESHOLD

(* Properties of the token pool *)

Interned == {i \in DOMAIN poolLog : poolLog[i].op = "intern" /\ poolLog[i].error = ""}
Resolved == {i \in DOMAIN poolLog : poolLog[i].op = "getString"}
Cleared == \E i \in DOMAIN poolLog : poolLog[i].op = "clear"
ReservedIds == {TokenPool_intern(TokenPool, STAR).id, TokenPool_intern(TokenPool, GT).id}

\* C26: after any sequence of intern and clear calls "*" and ">" map to
\* their two reserved ids, and no literal was issued either of them
C26_ReservedIds ==
  /\ TokenPool_intern(tokenPool, STAR).id = TokenPool_intern(TokenPool, STAR).id
  /\ TokenPool_intern(tokenPool, GT).id = TokenPool_intern(TokenPool, GT).id
  /\ \A i \in Interned :
       poolLog[i].str \notin {STAR, GT} => poolLog[i].id \notin ReservedIds

C28_RegistrationsPermanent ==
  [][\A subject \in PermanentSubjects :
       LET before == RouterMatch(sortStrategy, customSort, trie, pool, subject)
           after == RouterMatch(sortStrategy', customSort', trie', pool', subject)
       IN  /\ Range(before.payloads) \subseteq Range(after.payloads)
           /\ \A h \in Range(before.handlers) :
                Occurrences(before.handlers, h) <= Occurrences(after.handlers, h)]_vars

\* on the promoted root of the wide router, a handle call has taken both
\* handlers from its list and stopped at the second, and match still
\* returns the two
C28_Witness ==
  /\ Preloaded > 0
  /\ trie[<<>>].bt = "Map"
  /\ calls["c1"].state = "resolved"
  /\ calls["c1"].handlers = <<"obj", "stop">>
  /\ calls["c1"].matches = <<>>
  /\ RouterMatch(sortStrategy, customSort, trie, pool, calls["c1"].subject).handlers
       = <<"obj", "stop">>

(* Properties of the context under next calls that are not awaited *)

Holds(ctx, merged) == \A key \in Keys : merged[key] # Absent => ctx[key] = merged[key]

\* C29: every key that a next call has merged is, with the value of the
\* latest merge that wrote it, in the context of every handler invoked after
\* that merge, and in the context handle returns
C29_NoLostUpdate ==
  /\ \A i \in DOMAIN detached.invoked :
       Holds(detached.invoked[i].ctx, detached.invoked[i].merged)
  /\ detached.state = "resolved" => Holds(detached.result, detached.mergedAtReturn)

(* Properties of Bloomrun *)

LastCall == bloomLog[Len(bloomLog)]

\* the payloads added under a pattern and not removed since
Live(pattern) ==
  {bloomLog[i].payload : i \in
     {i \in DOMAIN bloomLog :
        /\ bloomLog[i].op = "add"
        /\ bloomLog[i].pattern = pattern
        /\ \A j \in (i + 1)..Len(bloomLog) :
             ~(bloomLog[j].op = "remove" /\ bloomLog[j].pattern = pattern)}}

\* C30: after remove(p), lookup(p) and list(p) return nothing, and list()
\* returns every entry registered under another pattern exactly once
C30_RemoveExact ==
  (Len(bloomLog) > 0 /\ LastCall.op = "remove") =>
    /\ Bloomrun_lookup(bloom, LastCall.pattern) = <<>>
    /\ Bloomrun_list(bloom, LastCall.pattern) = <<>>
    /\ \A pattern \in BloomPatterns \ {LastCall.pattern} :
         \A payload \in Live(pattern) :
           Occurrences(Bloomrun_listAll(bloom), payload) = 1

====
